---- MODULE Spec2Model ----
(***************************************************************************)
(* Model of SU2_CFD/src/numerics_direct_tne2.cpp: the convective, viscous  *)
(* and source-term kernels of the two-temperature (TNE2) solver.           *)
(*                                                                         *)
(* su2double values are modelled as exact rationals <<num, den>> with      *)
(* den > 0 and gcd(num, den) = 1, plus one absorbing non-finite value      *)
(* NaN = <<0, 0>> standing for the IEEE results of a division by zero      *)
(* (Inf and NaN are not told apart).  Vectors are functions on 0..n-1.     *)
(***************************************************************************)
EXTENDS Integers, Sequences, FiniteSets, TLC

VARIABLES
  inst,            \* the scheme object the calls act on (class, sizes, flags, scratch addresses)
  heap,            \* heap buffers currently allocated
  kernel,          \* the operation performed last
  inp,             \* the inputs of that operation
  prev,            \* the caller's buffers as they were when that operation started
  val_residual,    \* caller-owned flux / source residual vector
  val_source,      \* caller-owned source vector
  val_Jacobian_i,  \* caller-owned Jacobian of cell i
  val_Jacobian_j,  \* caller-owned Jacobian of cell j
  scratch,         \* internals of the last call that the properties talk about
  proc             \* the process: running, or exited with a status after printing to cout

vars == <<inst, heap, kernel, inp, prev, val_residual, val_source,
          val_Jacobian_i, val_Jacobian_j, scratch, proc>>

-----------------------------------------------------------------------------
(* su2double arithmetic                                                    *)

Abs(x) == IF x < 0 THEN -x ELSE x

RECURSIVE GCD(_, _)
GCD(a, b) == IF b = 0 THEN a ELSE GCD(b, a % b)

NaN == <<0, 0>>

IsNaN(x) == x[2] = 0

Norm(n, d) ==
  IF d = 0 THEN NaN
  ELSE LET g == GCD(Abs(n), Abs(d))
           s == IF d < 0 THEN -1 ELSE 1
       IN  <<(s * n) \div g, (s * d) \div g>>

Q(n, d) == Norm(n, d)

R(n) == <<n, 1>>

Zero == R(0)

One == R(1)

\* sums and products reduce by common factors first, to keep the integers small
Add(x, y) == IF x[2] = 1 /\ y[2] = 1 THEN <<x[1] + y[1], 1>>
             ELSE IF IsNaN(x) \/ IsNaN(y) THEN NaN
             ELSE LET g == GCD(x[2], y[2])
                  IN  Norm(x[1] * (y[2] \div g) + y[1] * (x[2] \div g),
                           (x[2] \div g) * y[2])

Neg(x) == <<-x[1], x[2]>>

Sub(x, y) == Add(x, Neg(y))

Mul(x, y) == IF x[2] = 1 /\ y[2] = 1 THEN <<x[1] * y[1], 1>>
             ELSE IF IsNaN(x) \/ IsNaN(y) THEN NaN
             ELSE IF x[1] = 0 \/ y[1] = 0 THEN <<0, 1>>
             ELSE LET g == GCD(Abs(x[1]), y[2])
                      h == GCD(Abs(y[1]), x[2])
                  IN  <<(x[1] \div g) * (y[1] \div h), (x[2] \div h) * (y[2] \div g)>>

\* x / y; a zero divisor gives the non-finite value
Div(x, y) == IF IsNaN(x) \/ IsNaN(y) \/ y[1] = 0 THEN NaN
             ELSE Mul(x, Norm(y[2], y[1]))

\* comparisons: every comparison with a NaN operand is false, as in IEEE
Lt(x, y) == ~IsNaN(x) /\ ~IsNaN(y) /\
            LET g == GCD(x[2], y[2])
            IN  x[1] * (y[2] \div g) < y[1] * (x[2] \div g)

Le(x, y) == ~IsNaN(x) /\ ~IsNaN(y) /\
            LET g == GCD(x[2], y[2])
            IN  x[1] * (y[2] \div g) <= y[1] * (x[2] \div g)

Gt(x, y) == Lt(y, x)

Ge(x, y) == Le(y, x)

Fabs(x) == <<Abs(x[1]), x[2]>>

\* std::max(a, b) is (a < b) ? b : a and std::min(a, b) is (b < a) ? b : a
Max(x, y) == IF Lt(x, y) THEN y ELSE x

Min(x, y) == IF Lt(y, x) THEN y ELSE x

Sq(x) == Mul(x, x)

Mul3(x, y, z) == Mul(Mul(x, y), z)

Mul4(x, y, z, w) == Mul(Mul(Mul(x, y), z), w)

Half == Q(1, 2)

Quarter == Q(1, 4)

RECURSIVE ISqrtIn(_, _, _)
ISqrtIn(n, lo, hi) ==
  IF hi - lo <= 1 THEN lo
  ELSE IF ((lo + hi) \div 2) * ((lo + hi) \div 2) <= n
    THEN ISqrtIn(n, (lo + hi) \div 2, hi)
    ELSE ISqrtIn(n, lo, (lo + hi) \div 2)

\* largest k with k*k <= n, by bisection of 0..46340
ISqrt(n) == ISqrtIn(n, 0, 46341)

\* sqrt: exact on squares of rationals; elsewhere rounded up to a multiple of
\* 1/4, the rounding a sqrt of (coarse) finite precision performs; NaN below zero
SqrtOf(x, a, b, k) ==
  IF a * a = x[1] /\ b * b = x[2] THEN Norm(a, b)
  ELSE IF k * k * x[2] >= 16 * x[1] THEN Norm(k, 4) ELSE Norm(k + 1, 4)

Sqrt(x) ==
  IF IsNaN(x) \/ x[1] < 0 THEN NaN
  ELSE SqrtOf(x, ISqrt(x[1]), ISqrt(x[2]), ISqrt((16 * x[1]) \div x[2]))

\* vectors
\* The checker evaluates a function constructor entry by entry at every use;
\* comparing the function makes it tabulate the entries once.
Vector(f) == IF f = f THEN f ELSE f

RECURSIVE SumTo(_, _)
SumTo(f, n) == IF n = 0 THEN Zero ELSE Add(SumTo(f, n - 1), f[n - 1])

\* sum of f[0] .. f[n-1], added in index order as the loops do
VSum(f, n) == SumTo(f, n)

Dot(u, v, n) == VSum([k \in 0..(n - 1) |-> Mul(u[k], v[k])], n)

ZeroVec(n) == [k \in 0..(n - 1) |-> Zero]

ConstVec(n, c) == [k \in 0..(n - 1) |-> c]

\* variant: the rows are added to what the buffer holds
Store_Adding(buf, val) ==
  Vector([k \in DOMAIN buf |-> IF k \in DOMAIN val THEN Add(buf[k], val[k]) ELSE buf[k]])

\* buf[k] = val[k] on the rows val covers; the other rows keep their content
Store(buf, val) ==
  Vector([k \in DOMAIN buf |-> IF k \in DOMAIN val THEN val[k] ELSE buf[k]])

\* buf[k] += val[k] on the rows val covers
Accumulate(buf, val) ==
  Vector([k \in DOMAIN buf |-> IF k \in DOMAIN val THEN Add(buf[k], val[k]) ELSE buf[k]])

-----------------------------------------------------------------------------
(* Caller-owned buffers and the idle values of the state                   *)

NoInst == [cls |-> "none"]

NoInp == [none |-> TRUE]

NoScratch == [none |-> TRUE]

\* what a caller's buffer may hold when a kernel is entered: zeroed, or the
\* leftovers of earlier work
PriorFill == {Zero, R(7)}

NoBuf == <<>>

Running == [state |-> "running"]

NoPrev == [residual |-> NoBuf, source |-> NoBuf, Jacobian_i |-> NoBuf, Jacobian_j |-> NoBuf]

Idle ==
  /\ inst = NoInst
  /\ heap = {}
  /\ kernel = "none"
  /\ inp = NoInp
  /\ prev = NoPrev
  /\ val_residual = NoBuf
  /\ val_source = NoBuf
  /\ val_Jacobian_i = NoBuf
  /\ val_Jacobian_j = NoBuf
  /\ scratch = NoScratch
  /\ proc = Running

-----------------------------------------------------------------------------
(* Layout of the state vectors                                             *)
(* U = [rho_1..rho_Ns, rho*u (nDim), rho*E, rho*E_ve]                      *)
(* V = [rho_1..rho_Ns, T, Tve, u (nDim), P, rho, h, a, rhoCvtr, rhoCvve]   *)

nVarOf(nSpecies, nDim) == nSpecies + nDim + 2

nPrimVarOf(nSpecies, nDim) == nSpecies + nDim + 8

RHOS_INDEX == 0

T_INDEX(nSpecies) == nSpecies

TVE_INDEX(nSpecies) == nSpecies + 1

VEL_INDEX(nSpecies) == nSpecies + 2

P_INDEX(nSpecies, nDim) == nSpecies + nDim + 2

RHO_INDEX(nSpecies, nDim) == nSpecies + nDim + 3

H_INDEX(nSpecies, nDim) == nSpecies + nDim + 4

A_INDEX(nSpecies, nDim) == nSpecies + nDim + 5

RHOCVTR_INDEX(nSpecies, nDim) == nSpecies + nDim + 6

RHOCVVE_INDEX(nSpecies, nDim) == nSpecies + nDim + 7

\* A cell state as the solver stores it: the conserved vector U and the
\* primitive vector V of the same gas state.  The state is chosen by the
\* partial-density pattern d (rho_s = (2s+1) d^2, so rho = nSpecies^2 d^2),
\* the velocity (u0, t, t), sound speed a, pressure P; the enthalpy is
\* h = 3 a^2 and the vibrational energy per mass is P.
SetState(nSpecies, nDim, d, u0, t, a, P) ==
  LET rho == (nSpecies * nSpecies) * d * d
  IN  [U |-> Vector([k \in 0..(nVarOf(nSpecies, nDim) - 1) |->
               IF k < nSpecies THEN R((2 * k + 1) * d * d)
               ELSE IF k = nSpecies THEN R(rho * u0)
               ELSE IF k < nSpecies + nDim THEN R(rho * t)
               ELSE IF k = nSpecies + nDim THEN R(rho * 3 * a * a - P)
               ELSE R(rho * P)]),
       V |-> Vector([k \in 0..(nPrimVarOf(nSpecies, nDim) - 1) |->
               IF k < nSpecies THEN R((2 * k + 1) * d * d)
               ELSE IF k = T_INDEX(nSpecies) THEN R(300 * a)
               ELSE IF k = TVE_INDEX(nSpecies) THEN R(300)
               ELSE IF k = VEL_INDEX(nSpecies) THEN R(u0)
               ELSE IF k < P_INDEX(nSpecies, nDim) THEN R(t)
               ELSE IF k = P_INDEX(nSpecies, nDim) THEN R(P)
               ELSE IF k = RHO_INDEX(nSpecies, nDim) THEN R(rho)
               ELSE IF k = H_INDEX(nSpecies, nDim) THEN R(3 * a * a)
               ELSE IF k = A_INDEX(nSpecies, nDim) THEN R(a)
               ELSE IF k = RHOCVTR_INDEX(nSpecies, nDim) THEN R(2 * rho)
               ELSE R(rho)])]

\* Area = sqrt(sum Normal^2), UnitNormal = Normal / Area
FaceArea(Normal, nDim) == Sqrt(VSum([k \in 0..(nDim - 1) |-> Mul(Normal[k], Normal[k])], nDim))

UnitNormalOf(Normal, nDim, Area) ==
  Vector([k \in 0..(nDim - 1) |-> Div(Normal[k], Area)])

FaceUnitNormal(Normal, nDim) == UnitNormalOf(Normal, nDim, FaceArea(Normal, nDim))

\* velocity of the primitive vector V projected on the vector n
ProjVel(nSpecies, nDim, V, n) ==
  VSum([k \in 0..(nDim - 1) |-> Mul(V[VEL_INDEX(nSpecies) + k], n[k])], nDim)

\* CNumerics::GetInviscidProjFlux: the physical inviscid flux of the state
\* (val_U, val_V) projected on val_normal, accumulated direction by direction.
GetInviscidProjFlux(nSpecies, nDim, val_U, val_V, val_normal) ==
  Vector([iVar \in 0..(nVarOf(nSpecies, nDim) - 1) |->
    VSum([k \in 0..(nDim - 1) |->
      Mul(IF iVar < nSpecies
            THEN Mul(val_V[RHOS_INDEX + iVar], val_V[VEL_INDEX(nSpecies) + k])
          ELSE IF iVar < nSpecies + nDim
            THEN Add(Mul3(val_V[RHO_INDEX(nSpecies, nDim)],
                          val_V[VEL_INDEX(nSpecies) + (iVar - nSpecies)],
                          val_V[VEL_INDEX(nSpecies) + k]),
                     IF iVar - nSpecies = k THEN val_V[P_INDEX(nSpecies, nDim)] ELSE Zero)
          ELSE IF iVar = nSpecies + nDim
            THEN Mul3(val_V[RHO_INDEX(nSpecies, nDim)], val_V[VEL_INDEX(nSpecies) + k],
                      val_V[H_INDEX(nSpecies, nDim)])
          ELSE Mul(val_U[nSpecies + nDim + 1], val_V[VEL_INDEX(nSpecies) + k]),
          val_normal[k])], nDim)])

-----------------------------------------------------------------------------
(* CUpwAUSM_TNE2::ComputeResidual                                          *)

AUSM_mLP(mL) ==
  IF Le(Fabs(mL), One) THEN Mul3(Quarter, Add(mL, One), Add(mL, One))
  ELSE Mul(Half, Add(mL, Fabs(mL)))

\* variant: the subsonic branch squares (mR + 1)
AUSM_mRM_SignSlip(mR) ==
  IF Le(Fabs(mR), One) THEN Mul3(Neg(Quarter), Add(mR, One), Add(mR, One))
  ELSE Mul(Half, Sub(mR, Fabs(mR)))

AUSM_mRM(mR) ==
  IF Le(Fabs(mR), One) THEN Mul3(Neg(Quarter), Sub(mR, One), Sub(mR, One))
  ELSE Mul(Half, Sub(mR, Fabs(mR)))

\* variant: the supersonic branch is not divided by mL
AUSM_pLP_Undivided(mL, P_i) ==
  IF Le(Fabs(mL), One)
    THEN Mul(Mul4(Quarter, P_i, Add(mL, One), Add(mL, One)), Sub(R(2), mL))
  ELSE Mul3(Half, P_i, Add(mL, Fabs(mL)))

AUSM_pLP(mL, P_i) ==
  IF Le(Fabs(mL), One)
    THEN Mul(Mul4(Quarter, P_i, Add(mL, One), Add(mL, One)), Sub(R(2), mL))
  ELSE Div(Mul3(Half, P_i, Add(mL, Fabs(mL))), mL)

\* variant: the subsonic branch weights with (2 - mR), as the left split does
AUSM_pRM_LeftWeight(mR, P_j) ==
  IF Le(Fabs(mR), One)
    THEN Mul(Mul4(Quarter, P_j, Sub(mR, One), Sub(mR, One)), Sub(R(2), mR))
  ELSE Div(Mul3(Half, P_j, Sub(mR, Fabs(mR))), mR)

AUSM_pRM(mR, P_j) ==
  IF Le(Fabs(mR), One)
    THEN Mul(Mul4(Quarter, P_j, Sub(mR, One), Sub(mR, One)), Add(R(2), mR))
  ELSE Div(Mul3(Half, P_j, Sub(mR, Fabs(mR))), mR)

\* left / right convective vector: rho_s*a, rho*a*u, rho*a*h, rho*a*e_ve
AUSM_Fc(nSpecies, nDim, U, V, a) ==
  Vector([iVar \in 0..(nVarOf(nSpecies, nDim) - 1) |->
    IF iVar < nSpecies THEN Mul(V[RHOS_INDEX + iVar], a)
    ELSE IF iVar < nSpecies + nDim
      THEN Mul3(V[RHO_INDEX(nSpecies, nDim)], a, V[VEL_INDEX(nSpecies) + (iVar - nSpecies)])
    ELSE IF iVar = nSpecies + nDim
      THEN Mul3(V[RHO_INDEX(nSpecies, nDim)], a, V[H_INDEX(nSpecies, nDim)])
    ELSE Mul3(V[RHO_INDEX(nSpecies, nDim)], a,
              Div(U[nSpecies + nDim + 1], V[RHO_INDEX(nSpecies, nDim)]))])

\* val_residual = 0.5*((mF+Phi)*FcL + (mF-Phi)*FcR)*Area, then the pressure
\* flux pF*UnitNormal*Area added to the momentum rows
AUSM_Residual(c, val_residual_in, Area, UnitNormal, FcL, FcR, mF, pF) ==
  Accumulate(
    Store(val_residual_in,
          [iVar \in 0..(nVarOf(c.nSpecies, c.nDim) - 1) |->
             Mul3(Half, Add(Mul(Add(mF, Fabs(mF)), FcL[iVar]),
                            Mul(Sub(mF, Fabs(mF)), FcR[iVar])), Area)]),
    [iVar \in c.nSpecies..(c.nSpecies + c.nDim - 1) |->
       Mul3(pF, UnitNormal[iVar - c.nSpecies], Area)])

\* the split fluxes of the left and right Mach numbers
AUSM_Split(c, val_residual_in, Area, UnitNormal, mL, mR) ==
  [residual |->
     AUSM_Residual(c, val_residual_in, Area, UnitNormal,
                   AUSM_Fc(c.nSpecies, c.nDim, c.U_i, c.V_i, c.V_i[A_INDEX(c.nSpecies, c.nDim)]),
                   AUSM_Fc(c.nSpecies, c.nDim, c.U_j, c.V_j, c.V_j[A_INDEX(c.nSpecies, c.nDim)]),
                   Add(AUSM_mLP(mL), AUSM_mRM(mR)),
                   Add(AUSM_pLP(mL, c.V_i[P_INDEX(c.nSpecies, c.nDim)]),
                       AUSM_pRM(mR, c.V_j[P_INDEX(c.nSpecies, c.nDim)]))),
   mL |-> mL, mR |-> mR,
   mF |-> Add(AUSM_mLP(mL), AUSM_mRM(mR)),
   pF |-> Add(AUSM_pLP(mL, c.V_i[P_INDEX(c.nSpecies, c.nDim)]),
              AUSM_pRM(mR, c.V_j[P_INDEX(c.nSpecies, c.nDim)]))]

AUSM_Mach(c, val_residual_in, Area, UnitNormal) ==
  AUSM_Split(c, val_residual_in, Area, UnitNormal,
             Div(ProjVel(c.nSpecies, c.nDim, c.V_i, UnitNormal), c.V_i[A_INDEX(c.nSpecies, c.nDim)]),
             Div(ProjVel(c.nSpecies, c.nDim, c.V_j, UnitNormal), c.V_j[A_INDEX(c.nSpecies, c.nDim)]))

AUSM_Geometry(c, val_residual_in, Area) ==
  AUSM_Mach(c, val_residual_in, Area, UnitNormalOf(c.Normal, c.nDim, Area))

\* the residual and the interface quantities of one call; c holds the inputs
CUpwAUSM_ComputeResidual(c, val_residual_in) ==
  AUSM_Geometry(c, val_residual_in, FaceArea(c.Normal, c.nDim))

-----------------------------------------------------------------------------
(* CUpwAUSMPLUSUP2_TNE2::ComputeResidual                                   *)

Kp == Q(1, 4)

sigma == One

UP2_mLP(mL, beta) ==
  IF Le(Fabs(mL), One)
    THEN Add(Mul3(Quarter, Add(mL, One), Add(mL, One)),
             Mul3(beta, Sub(Mul(mL, mL), One), Sub(Mul(mL, mL), One)))
  ELSE Mul(Half, Add(mL, Fabs(mL)))

UP2_mRM(mR, beta) ==
  IF Le(Fabs(mR), One)
    THEN Sub(Mul3(Neg(Quarter), Sub(mR, One), Sub(mR, One)),
             Mul3(beta, Sub(Mul(mR, mR), One), Sub(Mul(mR, mR), One)))
  ELSE Mul(Half, Sub(mR, Fabs(mR)))

\* variant: the quartic term is built on (mL*mL + 1)
UP2_pLP_PlusOne(mL, alpha) ==
  IF Le(Fabs(mL), One)
    THEN Add(Mul4(Quarter, Add(mL, One), Add(mL, One), Sub(R(2), mL)),
             Mul4(alpha, mL, Add(Mul(mL, mL), One), Add(Mul(mL, mL), One)))
  ELSE Div(Mul(Half, Add(mL, Fabs(mL))), mL)

UP2_pLP(mL, alpha) ==
  IF Le(Fabs(mL), One)
    THEN Add(Mul4(Quarter, Add(mL, One), Add(mL, One), Sub(R(2), mL)),
             Mul4(alpha, mL, Sub(Mul(mL, mL), One), Sub(Mul(mL, mL), One)))
  ELSE Div(Mul(Half, Add(mL, Fabs(mL))), mL)

UP2_pRM(mR, alpha) ==
  IF Le(Fabs(mR), One)
    THEN Sub(Mul4(Quarter, Sub(mR, One), Sub(mR, One), Add(R(2), mR)),
             Mul4(alpha, mR, Sub(Mul(mR, mR), One), Sub(Mul(mR, mR), One)))
  ELSE Div(Mul(Half, Sub(mR, Fabs(mR))), mR)

\* val_residual = (mfP*FcL + mfM*FcR)*Area with mfP = 0.5*(mF+Phi) and
\* mfM = 0.5*(mF-Phi), then pF*UnitNormal*Area added to the momentum rows
UP2_Residual(c, val_residual_in, Area, UnitNormal, FcL, FcR, mF, pF) ==
  Accumulate(
    Store(val_residual_in,
          [iVar \in 0..(nVarOf(c.nSpecies, c.nDim) - 1) |->
             Mul(Add(Mul(Mul(Half, Add(mF, Fabs(mF))), FcL[iVar]),
                     Mul(Mul(Half, Sub(mF, Fabs(mF))), FcR[iVar])), Area)]),
    [iVar \in c.nSpecies..(c.nSpecies + c.nDim - 1) |->
       Mul3(pF, UnitNormal[iVar - c.nSpecies], Area)])

UP2_Flux(c, val_residual_in, Area, UnitNormal, aF, mL, mR, mF, pF) ==
  [residual |-> UP2_Residual(c, val_residual_in, Area, UnitNormal,
                             AUSM_Fc(c.nSpecies, c.nDim, c.U_i, c.V_i, aF),
                             AUSM_Fc(c.nSpecies, c.nDim, c.U_j, c.V_j, aF), mF, pF),
   aF |-> aF, mL |-> mL, mR |-> mR, mF |-> mF, pF |-> pF]

\* pFi = sqrt(0.5*(sq_veli+sq_velj))*(pLP+pRM-1)*0.5*(rho_j+rho_i)*aF
\* pF  = 0.5*(P_j+P_i) + 0.5*(pLP-pRM)*(P_i-P_j) + pFi
UP2_Pressure(c, val_residual_in, Area, UnitNormal, aF, mL, mR, mF, pLP, pRM) ==
  UP2_Flux(c, val_residual_in, Area, UnitNormal, aF, mL, mR, mF,
    Add(Add(Mul(Half, Add(c.V_j[P_INDEX(c.nSpecies, c.nDim)], c.V_i[P_INDEX(c.nSpecies, c.nDim)])),
            Mul3(Half, Sub(pLP, pRM),
                 Sub(c.V_i[P_INDEX(c.nSpecies, c.nDim)], c.V_j[P_INDEX(c.nSpecies, c.nDim)]))),
        Mul4(Sqrt(Mul(Half, Add(VSum([k \in 0..(c.nDim - 1) |-> Sq(c.V_i[VEL_INDEX(c.nSpecies) + k])], c.nDim),
                                VSum([k \in 0..(c.nDim - 1) |-> Sq(c.V_j[VEL_INDEX(c.nSpecies) + k])], c.nDim)))),
             Sub(Add(pLP, pRM), One),
             Mul(Half, Add(c.V_j[RHO_INDEX(c.nSpecies, c.nDim)], c.V_i[RHO_INDEX(c.nSpecies, c.nDim)])),
             aF)))

\* Mp = -(Kp/fa)*max(1-sigma*MFsq, 0)*(P_j-P_i)/(rhoF*aF*aF)
UP2_Mp(c, aF, MFsq, fa) ==
  Div(Mul3(Neg(Div(Kp, fa)), Max(Sub(One, Mul(sigma, MFsq)), Zero),
           Sub(c.V_j[P_INDEX(c.nSpecies, c.nDim)], c.V_i[P_INDEX(c.nSpecies, c.nDim)])),
      Mul3(Mul(Half, Add(c.V_i[RHO_INDEX(c.nSpecies, c.nDim)], c.V_j[RHO_INDEX(c.nSpecies, c.nDim)])),
           aF, aF))

\* alpha = 3/16*(-4+5*fa*fa), beta = 1/8, and the split functions
UP2_Splits(c, val_residual_in, Area, UnitNormal, aF, mL, mR, MFsq, fa) ==
  UP2_Pressure(c, val_residual_in, Area, UnitNormal, aF, mL, mR,
    Add(Add(UP2_mLP(mL, Q(1, 8)), UP2_mRM(mR, Q(1, 8))), UP2_Mp(c, aF, MFsq, fa)),
    UP2_pLP(mL, Mul(Q(3, 16), Add(R(-4), Mul3(R(5), fa, fa)))),
    UP2_pRM(mR, Mul(Q(3, 16), Add(R(-4), Mul3(R(5), fa, fa)))))

\* fa = 2*sqrt(Mrefsq) - Mrefsq
UP2_fa(Mrefsq) == Sub(Mul(R(2), Sqrt(Mrefsq)), Mrefsq)

\* MFsq = 0.5*(mL*mL+mR*mR), Mrefsq = min(1, max(MFsq, Minf*Minf))
UP2_Scaling(c, val_residual_in, Area, UnitNormal, aF, mL, mR, MFsq) ==
  UP2_Splits(c, val_residual_in, Area, UnitNormal, aF, mL, mR, MFsq,
             UP2_fa(Min(One, Max(MFsq, Mul(c.Minf, c.Minf)))))

UP2_Mach(c, val_residual_in, Area, UnitNormal, aF, mL, mR) ==
  UP2_Scaling(c, val_residual_in, Area, UnitNormal, aF, mL, mR,
              Mul(Half, Add(Mul(mL, mL), Mul(mR, mR))))

UP2_Interface(c, val_residual_in, Area, UnitNormal, ProjVel_i, ProjVel_j, aF) ==
  UP2_Mach(c, val_residual_in, Area, UnitNormal, aF, Div(ProjVel_i, aF), Div(ProjVel_j, aF))

\* C* = sqrt(2*(Gamma-1)/(Gamma+1)*h)
UP2_Cstar(Gamma, h) == Sqrt(Mul(Div(Mul(R(2), Sub(Gamma, One)), Add(Gamma, One)), h))

\* C^ = C* * C* / max(C*, un)
UP2_Chat(Cstar, un) == Div(Mul(Cstar, Cstar), Max(Cstar, un))

\* aF = min(ChatL, ChatR)
UP2_Sound(c, val_residual_in, Area, UnitNormal, ProjVel_i, ProjVel_j) ==
  UP2_Interface(c, val_residual_in, Area, UnitNormal, ProjVel_i, ProjVel_j,
    Min(UP2_Chat(UP2_Cstar(c.Gamma, c.V_i[H_INDEX(c.nSpecies, c.nDim)]), ProjVel_i),
        UP2_Chat(UP2_Cstar(c.Gamma, c.V_j[H_INDEX(c.nSpecies, c.nDim)]), Neg(ProjVel_j))))

UP2_Geometry(c, val_residual_in, Area, UnitNormal) ==
  UP2_Sound(c, val_residual_in, Area, UnitNormal,
            ProjVel(c.nSpecies, c.nDim, c.V_i, UnitNormal),
            ProjVel(c.nSpecies, c.nDim, c.V_j, UnitNormal))

\* the residual and the interface quantities of one call; c holds the inputs
\* and the two values read from the configuration (Minf, Gamma)
CUpwAUSMPLUSUP2_ComputeResidual(c, val_residual_in) ==
  UP2_Geometry(c, val_residual_in, FaceArea(c.Normal, c.nDim),
               FaceUnitNormal(c.Normal, c.nDim))

-----------------------------------------------------------------------------
(* CUpwRoe_TNE2::ComputeResidual                                           *)

\* variant: the correction drops the Epsilon^2 term
EntropyFix_NoEpsSquare(Lambda_k, Epsilon_k) ==
  Fabs(IF Lt(Fabs(Lambda_k), Epsilon_k)
         THEN Div(Mul(Lambda_k, Lambda_k), Mul(R(2), Epsilon_k))
         ELSE Fabs(Lambda_k))

\* Harten-Hyman corrected magnitude of one eigenvalue, with the trailing fabs
EntropyFix(Lambda_k, Epsilon_k) ==
  Fabs(IF Lt(Fabs(Lambda_k), Epsilon_k)
         THEN Div(Add(Mul(Lambda_k, Lambda_k), Mul(Epsilon_k, Epsilon_k)),
                  Mul(R(2), Epsilon_k))
         ELSE Fabs(Lambda_k))

\* eigenvalues of the Roe state before the correction
RoeLambda(nSpecies, nDim, ProjVelocity, RoeSoundSpeed) ==
  Vector([iVar \in 0..(nVarOf(nSpecies, nDim) - 1) |->
     IF iVar = nSpecies + nDim - 1 THEN Add(ProjVelocity, RoeSoundSpeed)
     ELSE IF iVar = nSpecies + nDim THEN Sub(ProjVelocity, RoeSoundSpeed)
     ELSE ProjVelocity])

\* variant: the loop over the tangential rows ran to nDim, and left iDim there
Roe_EpsilonIndex_LoopToEnd(nSpecies, nDim, iVar) ==
  IF nSpecies <= iVar /\ iVar < nSpecies + nDim - 1 THEN iVar - nSpecies ELSE nDim

\* the value of iDim when Epsilon[iVar] of a convective row is computed: what
\* the loop over iDim < nDim-1 of the eigenvalues left (species rows), the
\* loop index (tangential rows), what that loop left (vibrational-energy row)
Roe_EpsilonIndex(nSpecies, nDim, iVar) ==
  IF nSpecies <= iVar /\ iVar < nSpecies + nDim - 1 THEN iVar - nSpecies ELSE nDim - 1

\* the thresholds: the convective rows read Lambda[iDim] with the value iDim
\* holds at that point (nDim-1 after the loop over the tangential rows, the
\* loop index inside it), the acoustic rows read their own eigenvalue
RoeEpsilon(nSpecies, nDim, Lambda, ProjVelocity_i, ProjVelocity_j, a_i, a_j) ==
  LET conv(iDim) == Mul(R(4), Max(Zero, Max(Sub(Lambda[iDim], ProjVelocity_i),
                                            Sub(ProjVelocity_j, Lambda[iDim]))))
  IN  Vector([iVar \in 0..(nVarOf(nSpecies, nDim) - 1) |->
         IF iVar < nSpecies + nDim - 1 THEN conv(Roe_EpsilonIndex(nSpecies, nDim, iVar))
         ELSE IF iVar = nSpecies + nDim - 1
           THEN Mul(R(4), Max(Zero, Max(Sub(Lambda[iVar], Add(ProjVelocity_i, a_i)),
                                        Sub(Add(ProjVelocity_j, a_j), Lambda[iVar]))))
         ELSE IF iVar = nSpecies + nDim
           THEN Mul(R(4), Max(Zero, Max(Sub(Lambda[iVar], Sub(ProjVelocity_i, a_i)),
                                        Sub(Sub(ProjVelocity_j, a_j), Lambda[iVar]))))
         ELSE conv(Roe_EpsilonIndex(nSpecies, nDim, iVar))])

\* results of GetPMatrix / GetPMatrix_inv for the Roe state: a matrix and its
\* inverse (the identity, or a shear of the first row by the last column)
EigenBases(nVar) ==
  { [P_Tensor |-> [i \in 0..(nVar - 1) |-> [j \in 0..(nVar - 1) |->
                     IF i = j THEN One ELSE IF i = 0 /\ j = nVar - 1 THEN R(e) ELSE Zero]],
     invP_Tensor |-> [i \in 0..(nVar - 1) |-> [j \in 0..(nVar - 1) |->
                     IF i = j THEN One ELSE IF i = 0 /\ j = nVar - 1 THEN R(-e) ELSE Zero]]]
    : e \in 0..1 }

\* Proj_ModJac_Tensor[iVar][jVar] = sum_k P_Tensor[iVar][k]*Lambda[k]*invP_Tensor[k][jVar]
Roe_ProjModJac(c, Lambda, iVar, jVar) ==
  VSum([kVar \in 0..(nVarOf(c.nSpecies, c.nDim) - 1) |->
          Mul3(c.P_Tensor[iVar][kVar], Lambda[kVar], c.invP_Tensor[kVar][jVar])],
       nVarOf(c.nSpecies, c.nDim))

\* the amount subtracted from row iVar: sum_j 0.5*Proj_ModJac_Tensor*Diff_U[j]*Area
Roe_Dissipation(c, Area, Lambda) ==
  Vector([iVar \in 0..(nVarOf(c.nSpecies, c.nDim) - 1) |->
    VSum([jVar \in 0..(nVarOf(c.nSpecies, c.nDim) - 1) |->
            Mul4(Half, Roe_ProjModJac(c, Lambda, iVar, jVar),
                 Sub(c.U_j[jVar], c.U_i[jVar]), Area)],
         nVarOf(c.nSpecies, c.nDim))])

\* val_residual = 0.5*(ProjFlux_i+ProjFlux_j), then the dissipation subtracted
Roe_Residual(c, val_residual_in, ProjFlux_i, ProjFlux_j, Diss) ==
  Accumulate(
    Store(val_residual_in,
          [iVar \in 0..(nVarOf(c.nSpecies, c.nDim) - 1) |->
             Mul(Half, Add(ProjFlux_i[iVar], ProjFlux_j[iVar]))]),
    [iVar \in 0..(nVarOf(c.nSpecies, c.nDim) - 1) |-> Neg(Diss[iVar])])

Roe_Flux(c, val_residual_in, Lambda0, Epsilon, Lambda, Diss) ==
  [residual |-> Roe_Residual(c, val_residual_in,
                             GetInviscidProjFlux(c.nSpecies, c.nDim, c.U_i, c.V_i, c.Normal),
                             GetInviscidProjFlux(c.nSpecies, c.nDim, c.U_j, c.V_j, c.Normal),
                             Diss),
   Lambda0 |-> Lambda0, Epsilon |-> Epsilon, Lambda |-> Lambda, Diss |-> Diss]

Roe_Corrected(c, val_residual_in, Area, Lambda0, Epsilon, Lambda) ==
  Roe_Flux(c, val_residual_in, Lambda0, Epsilon, Lambda, Roe_Dissipation(c, Area, Lambda))

Roe_Fix(c, val_residual_in, Area, Lambda0, Epsilon) ==
  Roe_Corrected(c, val_residual_in, Area, Lambda0, Epsilon,
    Vector([iVar \in 0..(nVarOf(c.nSpecies, c.nDim) - 1) |->
              EntropyFix(Lambda0[iVar], Epsilon[iVar])]))

Roe_Thresholds(c, val_residual_in, Area, UnitNormal, Lambda0) ==
  Roe_Fix(c, val_residual_in, Area, Lambda0,
    RoeEpsilon(c.nSpecies, c.nDim, Lambda0,
               ProjVel(c.nSpecies, c.nDim, c.V_i, UnitNormal),
               ProjVel(c.nSpecies, c.nDim, c.V_j, UnitNormal),
               c.V_i[A_INDEX(c.nSpecies, c.nDim)], c.V_j[A_INDEX(c.nSpecies, c.nDim)]))

\* RoeSoundSpeed = sqrt((1+RoedPdU[nSpecies+nDim])*RoeV[P_INDEX]/RoeV[RHO_INDEX])
Roe_Eigenvalues(c, val_residual_in, Area, UnitNormal, RoeV) ==
  Roe_Thresholds(c, val_residual_in, Area, UnitNormal,
    RoeLambda(c.nSpecies, c.nDim, ProjVel(c.nSpecies, c.nDim, RoeV, UnitNormal),
      Sqrt(Div(Mul(Add(One, c.RoedPdU[c.nSpecies + c.nDim]), RoeV[P_INDEX(c.nSpecies, c.nDim)]),
               RoeV[RHO_INDEX(c.nSpecies, c.nDim)]))))

\* RoeV = (R*V_j + V_i)/(R + 1)
Roe_Average(c, val_residual_in, Area, UnitNormal, Rr) ==
  Roe_Eigenvalues(c, val_residual_in, Area, UnitNormal,
    Vector([k \in 0..(nPrimVarOf(c.nSpecies, c.nDim) - 1) |->
              Div(Add(Mul(Rr, c.V_j[k]), c.V_i[k]), Add(Rr, One))]))

\* the residual and the eigenvalue data of one call; c holds the inputs, the
\* pressure derivatives of the Roe state and the two eigenvector matrices
CUpwRoe_ComputeResidual(c, val_residual_in) ==
  Roe_Average(c, val_residual_in, FaceArea(c.Normal, c.nDim),
              FaceUnitNormal(c.Normal, c.nDim),
              Sqrt(Fabs(Div(c.V_j[RHO_INDEX(c.nSpecies, c.nDim)],
                            c.V_i[RHO_INDEX(c.nSpecies, c.nDim)]))))

-----------------------------------------------------------------------------
(* CCentLax_TNE2::ComputeResidual                                          *)

EPS == Q(1, 1000)

\* pow(x, Param_p) with 0 < Param_p < 1: libm's result is known at 0 and 1 and
\* by its side of 1 elsewhere; lo < 1 < hi stand for the values in between
Pow(x, lo, hi) ==
  IF IsNaN(x) \/ Lt(x, Zero) THEN NaN
  ELSE IF x = Zero THEN Zero
  ELSE IF x = One THEN One
  ELSE IF Lt(x, One) THEN lo ELSE hi

\* Diff_U = U_i - U_j, the energy row as rho_i*h_i - rho_j*h_j
CentLax_DiffU(c, iVar) ==
  IF iVar = c.nSpecies + c.nDim
    THEN Sub(Mul(c.V_i[RHO_INDEX(c.nSpecies, c.nDim)], c.V_i[H_INDEX(c.nSpecies, c.nDim)]),
             Mul(c.V_j[RHO_INDEX(c.nSpecies, c.nDim)], c.V_j[H_INDEX(c.nSpecies, c.nDim)]))
  ELSE Sub(c.U_i[iVar], c.U_j[iVar])

\* the flux of the mean state
CentLax_ProjFlux(c) ==
  GetInviscidProjFlux(c.nSpecies, c.nDim,
    Vector([iVar \in 0..(nVarOf(c.nSpecies, c.nDim) - 1) |-> Mul(Half, Add(c.U_i[iVar], c.U_j[iVar]))]),
    Vector([iVar \in 0..(nPrimVarOf(c.nSpecies, c.nDim) - 1) |-> Mul(Half, Add(c.V_i[iVar], c.V_j[iVar]))]),
    c.Normal)

CentLax_Flux(c, val_residual_in, MeanLambda, StretchingFactor, Epsilon_0, Diss) ==
  [residual |-> Accumulate(Store(val_residual_in, CentLax_ProjFlux(c)), Diss),
   Diss |-> Diss, MeanLambda |-> MeanLambda, StretchingFactor |-> StretchingFactor,
   Epsilon_0 |-> Epsilon_0]

\* val_residual[iVar] += Epsilon_0*Diff_U[iVar]*StretchingFactor*MeanLambda
CentLax_Dissipation(c, val_residual_in, MeanLambda, StretchingFactor, Epsilon_0) ==
  CentLax_Flux(c, val_residual_in, MeanLambda, StretchingFactor, Epsilon_0,
    Vector([iVar \in 0..(nVarOf(c.nSpecies, c.nDim) - 1) |->
              Mul4(Epsilon_0, CentLax_DiffU(c, iVar), StretchingFactor, MeanLambda)]))

\* StretchingFactor = 4*Phi_i*Phi_j/(Phi_i+Phi_j+EPS);
\* sc0 = 3*(Neighbor_i+Neighbor_j)/(Neighbor_i*Neighbor_j);
\* Epsilon_0 = Param_Kappa_0*sc0*nDim/3
CentLax_Stretching(c, val_residual_in, MeanLambda, Phi_i, Phi_j) ==
  CentLax_Dissipation(c, val_residual_in, MeanLambda,
    Div(Mul3(R(4), Phi_i, Phi_j), Add(Add(Phi_i, Phi_j), EPS)),
    Div(Mul3(c.Param_Kappa_0,
             Div(Mul(R(3), Add(R(c.Neighbor_i), R(c.Neighbor_j))),
                 Mul(R(c.Neighbor_i), R(c.Neighbor_j))),
             R(c.nDim)), R(3)))

\* Phi = pow(Lambda/(4*MeanLambda+EPS), Param_p)
CentLax_Phi(c, val_residual_in, MeanLambda) ==
  CentLax_Stretching(c, val_residual_in, MeanLambda,
    Pow(Div(c.Lambda_i, Add(Mul(R(4), MeanLambda), EPS)), c.powLo, c.powHi),
    Pow(Div(c.Lambda_j, Add(Mul(R(4), MeanLambda), EPS)), c.powLo, c.powHi))

\* Local_Lambda = fabs(ProjVel) + a*Area with ProjVel on the dimensional
\* Normal; Area is reset to 0 and its square root taken, the sum of squares of
\* the Normal never enters it
CentLax_Lambda(c, val_residual_in, Area) ==
  CentLax_Phi(c, val_residual_in,
    Mul(Half,
        Add(Add(Fabs(ProjVel(c.nSpecies, c.nDim, c.V_i, c.Normal)),
                Mul(c.V_i[A_INDEX(c.nSpecies, c.nDim)], Area)),
            Add(Fabs(ProjVel(c.nSpecies, c.nDim, c.V_j, c.Normal)),
                Mul(c.V_j[A_INDEX(c.nSpecies, c.nDim)], Area)))))

\* the residual and the dissipation data of one call; c holds the inputs, the
\* spectral radii and neighbour counts of the two cells and the constants
CCentLax_ComputeResidual(c, val_residual_in) ==
  CentLax_Lambda(c, val_residual_in, Sqrt(Zero))

-----------------------------------------------------------------------------
(* The convective schemes called on pairs of cell states                   *)

\* bound of the cell states tried: first velocity component -MaxVel..MaxVel
MaxVel == 3

\* (nSpecies, nDim) of the mixtures and meshes tried
FluxSizes == {<<2, 2>>, <<1, 3>>}

\* slow and dense (a = 1, P = 1) or fast and denser (a = 2, P = 2) gas, the
\* other velocity components 1
CellStates(nSpecies, nDim) ==
  { SetState(nSpecies, nDim, a, u0, 1, a, a) : u0 \in (-MaxVel)..MaxVel, a \in 1..2 }

\* face normals (not unit): along an axis, against an axis, oblique
AlignedNormals(nDim) ==
  IF nDim = 2
    THEN { <<R(2), R(0)>>, <<R(-1), R(0)>> }
    ELSE { <<R(2), R(0), R(0)>>, <<R(-1), R(0), R(0)>> }

FaceNormals(nDim) ==
  AlignedNormals(nDim) \cup
    (IF nDim = 2 THEN { <<R(3), R(4)>> } ELSE { <<R(3), R(0), R(4)>> })

\* a tuple <<x1, .., xn>> as a vector on 0..n-1
Vec(t) == [k \in 0..(Len(t) - 1) |-> t[k + 1]]

FluxInputs(nSpecies, nDim) ==
  { [nSpecies |-> nSpecies, nDim |-> nDim, Normal |-> Vec(n),
     U_i |-> si.U, V_i |-> si.V, U_j |-> sj.U, V_j |-> sj.V] :
      si \in CellStates(nSpecies, nDim), sj \in CellStates(nSpecies, nDim),
      n \in FaceNormals(nDim) }

\* the caller has set the states and the normal of a face; no scheme has run
\* and the residual buffer holds leftovers
FluxInit ==
  /\ inst = NoInst
  /\ heap = {}
  /\ kernel = "none"
  /\ \E sz \in FluxSizes : inp \in FluxInputs(sz[1], sz[2])
  /\ prev = NoPrev
  /\ val_residual = ConstVec(nVarOf(inp.nSpecies, inp.nDim), R(7))
  /\ val_source = NoBuf
  /\ val_Jacobian_i = NoBuf
  /\ val_Jacobian_j = NoBuf
  /\ scratch = NoScratch
  /\ proc = Running

FluxDone(k, c, out, sc) ==
  /\ kernel' = k
  /\ inp' = c
  /\ val_residual' = out.residual
  /\ scratch' = sc
  /\ UNCHANGED <<inst, heap, prev, val_source, val_Jacobian_i, val_Jacobian_j, proc>>

RoeFlux ==
  /\ kernel = "none"
  /\ LET c0 == inp
         sz == <<inp.nSpecies, inp.nDim>>
     IN
       \E eb \in EigenBases(nVarOf(sz[1], sz[2])) :
         LET c == [nSpecies |-> c0.nSpecies, nDim |-> c0.nDim, Normal |-> c0.Normal,
                   U_i |-> c0.U_i, V_i |-> c0.V_i, U_j |-> c0.U_j, V_j |-> c0.V_j,
                   RoedPdU |-> ConstVec(nVarOf(sz[1], sz[2]), Q(2, 5)),
                   P_Tensor |-> eb.P_Tensor, invP_Tensor |-> eb.invP_Tensor]
             out == CUpwRoe_ComputeResidual(c, val_residual)
         IN  FluxDone("CUpwRoe", c, out,
                      [Lambda0 |-> out.Lambda0, Epsilon |-> out.Epsilon,
                       Lambda |-> out.Lambda, Diss |-> out.Diss])

AUSMFlux ==
  /\ kernel = "none"
  /\ LET c == inp
     IN
       LET out == CUpwAUSM_ComputeResidual(c, val_residual)
         IN  FluxDone("CUpwAUSM", c, out,
                      [mL |-> out.mL, mR |-> out.mR, mF |-> out.mF, pF |-> out.pF])

\* the fifth-degree polynomials of this scheme are evaluated on the faces along
\* an axis, where the exact arithmetic stays within the integers of the checker
AUSMPLUSUP2Flux ==
  /\ kernel = "none"
  /\ inp.Normal \in { Vec(n) : n \in AlignedNormals(inp.nDim) }
  /\ LET c0 == inp
         sz == <<inp.nSpecies, inp.nDim>>
     IN
       LET c == [nSpecies |-> c0.nSpecies, nDim |-> c0.nDim, Normal |-> c0.Normal,
                   U_i |-> c0.U_i, V_i |-> c0.V_i, U_j |-> c0.U_j, V_j |-> c0.V_j,
                   Minf |-> Q(1, 2), Gamma |-> Q(7, 5)]
             out == CUpwAUSMPLUSUP2_ComputeResidual(c, val_residual)
         IN  FluxDone("CUpwAUSMPLUSUP2", c, out,
                      [mL |-> out.mL, mR |-> out.mR, mF |-> out.mF, pF |-> out.pF])

CentLaxFlux ==
  /\ kernel = "none"
  /\ LET c0 == inp
         sz == <<inp.nSpecies, inp.nDim>>
     IN
       \E L_i \in {0, 3} :
         LET c == [nSpecies |-> c0.nSpecies, nDim |-> c0.nDim, Normal |-> c0.Normal,
                   U_i |-> c0.U_i, V_i |-> c0.V_i, U_j |-> c0.U_j, V_j |-> c0.V_j,
                   Lambda_i |-> R(L_i), Lambda_j |-> R(1), Neighbor_i |-> 2, Neighbor_j |-> 3,
                   Param_Kappa_0 |-> Half, powLo |-> Half, powHi |-> R(2)]
             out == CCentLax_ComputeResidual(c, val_residual)
         IN  FluxDone("CCentLax", c, out,
                      [Diss |-> out.Diss, MeanLambda |-> out.MeanLambda])

FluxNext == RoeFlux \/ AUSMFlux \/ AUSMPLUSUP2Flux \/ CentLaxFlux

SpecFlux == FluxInit /\ [][FluxNext]_vars

-----------------------------------------------------------------------------
(* Properties of the convective schemes                                    *)

EqualStates == inp.U_i = inp.U_j /\ inp.V_i = inp.V_j

\* normal velocity u.n of the left state of the last call
NormalVelocity_i ==
  Dot([k \in 0..(inp.nDim - 1) |-> inp.V_i[VEL_INDEX(inp.nSpecies) + k]],
      FaceUnitNormal(inp.Normal, inp.nDim), inp.nDim)

\* the analytic inviscid flux of the left state through the face: species
\* rho_s*u_n*Area, momentum rho*u_n*u*Area + P*Normal, energy rho*u_n*h*Area,
\* vibrational-electronic rho*u_n*e_ve*Area
AnalyticFlux_i ==
  LET nSpecies == inp.nSpecies
      nDim == inp.nDim
      Area == FaceArea(inp.Normal, nDim)
      u_n == NormalVelocity_i
      rho == inp.V_i[RHO_INDEX(nSpecies, nDim)]
      e_ve == Div(inp.U_i[nSpecies + nDim + 1], rho)
  IN  [iVar \in 0..(nVarOf(nSpecies, nDim) - 1) |->
         IF iVar < nSpecies THEN Mul3(inp.V_i[RHOS_INDEX + iVar], u_n, Area)
         ELSE IF iVar < nSpecies + nDim
           THEN Add(Mul4(rho, u_n, inp.V_i[VEL_INDEX(nSpecies) + (iVar - nSpecies)], Area),
                    Mul(inp.V_i[P_INDEX(nSpecies, nDim)], inp.Normal[iVar - nSpecies]))
         ELSE IF iVar = nSpecies + nDim
           THEN Mul4(rho, u_n, inp.V_i[H_INDEX(nSpecies, nDim)], Area)
         ELSE Mul4(rho, u_n, e_ve, Area)]

\* C2: with equal left and right states the Roe, plain AUSM and centered-Lax
\* residuals are the analytic flux of that state through the face; the Roe and
\* Lax dissipation rows are all zero, and the AUSM interface Mach number and
\* pressure are the normal Mach number and the pressure of the state.
C2_EqualStatesGiveAnalyticFlux ==
  (kernel \in {"CUpwRoe", "CUpwAUSM", "CCentLax"} /\ EqualStates) =>
    /\ val_residual = AnalyticFlux_i
    /\ kernel \in {"CUpwRoe", "CCentLax"} =>
         \A iVar \in DOMAIN scratch.Diss : scratch.Diss[iVar] = Zero
    /\ kernel = "CUpwAUSM" =>
         /\ scratch.mF = Div(NormalVelocity_i, inp.V_i[A_INDEX(inp.nSpecies, inp.nDim)])
         /\ scratch.pF = inp.V_i[P_INDEX(inp.nSpecies, inp.nDim)]

\* a supersonic equal-state face has gone through plain AUSM
C2_Witness ==
  /\ kernel = "CUpwAUSM"
  /\ EqualStates
  /\ Gt(Fabs(scratch.mL), One)
  /\ val_residual = AnalyticFlux_i

\* the last call's inputs seen from the other side of the face
Reflected(c) ==
  [c EXCEPT !.U_i = c.U_j, !.V_i = c.V_j, !.U_j = c.U_i, !.V_j = c.V_i,
            !.Normal = [k \in DOMAIN c.Normal |-> Neg(c.Normal[k])]]

ReflectedResidual ==
  IF kernel = "CUpwAUSM"
    THEN CUpwAUSM_ComputeResidual(Reflected(inp), val_residual).residual
    ELSE CUpwAUSMPLUSUP2_ComputeResidual(Reflected(inp), val_residual).residual

\* C3: the plain AUSM and AUSM+-up2 residual of (L, R, n) is, row by row, the
\* negated residual of (R, L, -n).
C3_AUSMFaceSymmetry ==
  kernel \in {"CUpwAUSM", "CUpwAUSMPLUSUP2"} =>
    \A iVar \in DOMAIN val_residual : val_residual[iVar] = Neg(ReflectedResidual[iVar])

\* two different states meeting at |mL| = |mR| = 1 with a zero interface Mach number
C3_Witness ==
  /\ kernel = "CUpwAUSM"
  /\ ~EqualStates
  /\ Fabs(scratch.mL) = One
  /\ Fabs(scratch.mR) = One
  /\ scratch.mF = Zero
  /\ \A iVar \in DOMAIN val_residual : val_residual[iVar] = Neg(ReflectedResidual[iVar])

\* C4: every eigenvalue the Roe dissipation uses is at least the magnitude of
\* the uncorrected eigenvalue, and is not negative.
C4_EntropyFixBound ==
  kernel = "CUpwRoe" =>
    \A k \in DOMAIN scratch.Lambda :
      /\ Ge(scratch.Epsilon[k], Zero)
      /\ Ge(scratch.Lambda[k], Fabs(scratch.Lambda0[k]))
      /\ Ge(scratch.Lambda[k], Zero)

\* the correction was active on a mode and raised its eigenvalue
C4_Witness ==
  /\ kernel = "CUpwRoe"
  /\ \E k \in DOMAIN scratch.Lambda :
       /\ Lt(Fabs(scratch.Lambda0[k]), scratch.Epsilon[k])
       /\ Gt(scratch.Lambda[k], Fabs(scratch.Lambda0[k]))

-----------------------------------------------------------------------------
(* CSource_TNE2::GetKeqConstants                                           *)

\* unsigned short
USHORT == 65536

ToUShort(n) == n % USHORT

\* the equilibrium-constant table of a reaction as the configuration hands it
\* over: 6 rows (decades 1e14 .. 1e19 of number density) of 5 coefficients
RxnConstantTable(val_Reaction) ==
  [row \in 0..5 |-> [ii \in 0..4 |-> R(100 * val_Reaction + 10 * row + ii)]]

\* The mixture number density N (1/cm^3) is given as mant * 10^dec with
\* 1 <= mant < 10, so floor(log10(N)) = dec.  tmp1 = 10^pwr and
\* tmp2 = 10^(pwr+1) are kept in units of 10^pwr, as is N in the
\* interpolation weight (N - tmp1)/(tmp2 - tmp1).
GetKeqConstants(mant, dec, val_Reaction) ==
  LET T == RxnConstantTable(val_Reaction)
      tbl_offset == 14
      pwr == ToUShort(dec)
      iIndex == ToUShort(pwr - tbl_offset)
      tmp1 == One
      tmp2 == Mul(One, R(10))
  IN  IF iIndex <= 0 THEN T[0]
      ELSE IF iIndex >= 5 THEN T[5]
      ELSE [ii \in 0..4 |->
              Add(Mul(Div(Sub(T[iIndex + 1][ii], T[iIndex][ii]), Sub(tmp2, tmp1)),
                      Sub(mant, tmp1)),
                  T[iIndex][ii])]

\* bounds of the number densities tried: decades 0 .. MaxDecade
MaxDecade == 21

Mantissas == {One, R(2), Q(11, 2), Q(19, 2)}

KeqCall(mant, dec, val_Reaction) ==
  /\ kernel' = "GetKeqConstants"
  /\ inp' = [mant |-> mant, dec |-> dec, val_Reaction |-> val_Reaction]
  /\ scratch' = [A |-> GetKeqConstants(mant, dec, val_Reaction)]
  /\ UNCHANGED <<inst, heap, prev, val_residual, val_source,
                 val_Jacobian_i, val_Jacobian_j, proc>>

KeqNext ==
  \E mant \in Mantissas, dec \in 0..MaxDecade, val_Reaction \in 0..1 :
    KeqCall(mant, dec, val_Reaction)

SpecKeq == Idle /\ [][KeqNext]_vars

\* C1: below the table's lowest decade (floor(log10 N) < 14, N >= 1) the
\* coefficients returned are table row 0, and from decade 19 on they are row 5.
C1_KeqClampsAtTableEnds ==
  kernel = "GetKeqConstants" =>
    /\ inp.dec < 14 => scratch.A = RxnConstantTable(inp.val_Reaction)[0]
    /\ inp.dec >= 19 => scratch.A = RxnConstantTable(inp.val_Reaction)[5]

-----------------------------------------------------------------------------
(* CSource_TNE2::ComputeChemistry                                          *)

\* a vector with the one row k
Row(k, x) == [i \in {k} |-> x]

ZeroMat(n) == Vector([i \in 0..(n - 1) |-> ZeroVec(n)])

ConstMat(n, x) == Vector([i \in 0..(n - 1) |-> ConstVec(n, x)])

\* 0.001*U_i[iSpecies]/Ms[iSpecies]
Chem_Conc(c, iSpecies) == Div(Mul(Q(1, 1000), c.U_i[iSpecies]), c.Ms[iSpecies])

\* the product of the concentrations listed in the slots ii.. of one side of
\* a reaction (side 0: reactants, side 1: products); the value nSpecies in a
\* slot lists nothing
RECURSIVE Chem_RateProduct(_, _, _, _, _)
Chem_RateProduct(c, iReaction, side, ii, acc) ==
  IF ii = 3 THEN acc
  ELSE Chem_RateProduct(c, iReaction, side, ii + 1,
         IF c.RxnMap[iReaction][side][ii] # c.nSpecies
           THEN Mul(acc, Chem_Conc(c, c.RxnMap[iReaction][side][ii]))
           ELSE acc)

\* variant: the product slots add their energy to the total-energy row
Chem_Gain_EnergyRow(c, iSpecies, w, buf) ==
  IF iSpecies = c.nSpecies THEN buf
  ELSE Accumulate(
         Accumulate(buf, Row(iSpecies, Mul3(c.Ms[iSpecies], w, c.Volume))),
         Row(c.nSpecies + c.nDim,
             Mul4(c.Ms[iSpecies], w, c.eve_i[iSpecies], c.Volume)))

\* a product slot: the species row and the vibrational-energy row gain
Chem_Gain(c, iSpecies, w, buf) ==
  IF iSpecies = c.nSpecies THEN buf
  ELSE Accumulate(
         Accumulate(buf, Row(iSpecies, Mul3(c.Ms[iSpecies], w, c.Volume))),
         Row(c.nSpecies + c.nDim + 1,
             Mul4(c.Ms[iSpecies], w, c.eve_i[iSpecies], c.Volume)))

\* variant: the reactant rows are added like the product rows
Chem_Loss_SignSlip(c, iSpecies, w, buf) ==
  IF iSpecies = c.nSpecies THEN buf
  ELSE Accumulate(
         Accumulate(buf, Row(iSpecies, Mul3(c.Ms[iSpecies], w, c.Volume))),
         Row(c.nSpecies + c.nDim + 1,
             Mul4(c.Ms[iSpecies], w, c.eve_i[iSpecies], c.Volume)))

\* a reactant slot: the species row and the vibrational-energy row lose
Chem_Loss(c, iSpecies, w, buf) ==
  IF iSpecies = c.nSpecies THEN buf
  ELSE Accumulate(
         Accumulate(buf, Row(iSpecies, Neg(Mul3(c.Ms[iSpecies], w, c.Volume)))),
         Row(c.nSpecies + c.nDim + 1,
             Neg(Mul4(c.Ms[iSpecies], w, c.eve_i[iSpecies], c.Volume))))

\* the three slots of a reaction, product then reactant of each; w = fwdRxn-bkwRxn
RECURSIVE Chem_Slots(_, _, _, _, _)
Chem_Slots(c, iReaction, ii, w, buf) ==
  IF ii = 3 THEN buf
  ELSE Chem_Slots(c, iReaction, ii + 1, w,
         Chem_Loss(c, c.RxnMap[iReaction][0][ii], w,
           Chem_Gain(c, c.RxnMap[iReaction][1][ii], w, buf)))

\* one slot's additions to the Jacobian: the species row and the row nEve;
\* dWdU[iReaction] is the derivative of the net rate,
\* dkf*(fwdRxn/kf) + kf*dRfok - dkb*(bkwRxn/kb) - kb*dRbok
Chem_JacobianAdd(c, iReaction, iSpecies, sgn, w, J) ==
  IF iSpecies = c.nSpecies THEN J
  ELSE Vector([i \in DOMAIN J |->
         IF i = iSpecies
           THEN Vector([j \in DOMAIN J[i] |->
                  Add(J[i][j], Mul4(sgn, c.Ms[iSpecies], c.dWdU[iReaction][j], c.Volume))])
         ELSE IF i = c.nSpecies + c.nDim + 1
           THEN Vector([j \in DOMAIN J[i] |->
                  Add(Add(J[i][j],
                          Mul4(sgn, c.Ms[iSpecies],
                               Mul(c.dWdU[iReaction][j], c.eve_i[iSpecies]), c.Volume)),
                      Mul4(sgn, c.Ms[iSpecies],
                           Mul3(w, c.Cvve_i[iSpecies], c.dTvedU_i[j]), c.Volume))])
         ELSE J[i]])

RECURSIVE Chem_JacobianSlots(_, _, _, _, _)
Chem_JacobianSlots(c, iReaction, ii, w, J) ==
  IF ii = 3 THEN J
  ELSE Chem_JacobianSlots(c, iReaction, ii + 1, w,
         Chem_JacobianAdd(c, iReaction, c.RxnMap[iReaction][0][ii], Neg(One), w,
           Chem_JacobianAdd(c, iReaction, c.RxnMap[iReaction][1][ii], One, w, J)))

\* the Jacobian is touched under the implicit flag only
Chem_Jacobian(c, iReaction, w, J) ==
  IF c.implicit THEN Chem_JacobianSlots(c, iReaction, 0, w, J) ELSE J

RECURSIVE Chem_Reactions(_, _, _, _, _, _)

\* the end of one pass of the reaction loop: val_source takes the residual
\* accumulated so far, divided by the volume
Chem_SetSource(c, iReaction, before, val_source_in, J, rxn, fwdRxn, bkwRxn, after) ==
  Chem_Reactions(c, iReaction + 1, after,
    Accumulate(val_source_in, [iVar \in DOMAIN after |-> Div(after[iVar], c.Volume)]),
    Chem_Jacobian(c, iReaction, Sub(fwdRxn, bkwRxn), J),
    Append(rxn, [before |-> before, after |-> after, fwdRxn |-> fwdRxn, bkwRxn |-> bkwRxn]))

Chem_Rates(c, iReaction, val_residual_in, val_source_in, J, rxn, fwdRxn, bkwRxn) ==
  Chem_SetSource(c, iReaction, val_residual_in, val_source_in, J, rxn, fwdRxn, bkwRxn,
    Chem_Slots(c, iReaction, 0, Sub(fwdRxn, bkwRxn), val_residual_in))

\* the loop over the reactions; kf and kb are the rate coefficients the
\* Arrhenius law and the equilibrium constant give for the cell's temperatures
Chem_Reactions(c, iReaction, val_residual_in, val_source_in, J, rxn) ==
  IF iReaction = c.nReactions
    THEN [residual |-> val_residual_in, source |-> val_source_in, Jacobian_i |-> J, rxn |-> rxn]
  ELSE Chem_Rates(c, iReaction, val_residual_in, val_source_in, J, rxn,
         Mul3(R(1000), c.kf[iReaction], Chem_RateProduct(c, iReaction, 0, 0, One)),
         Mul3(R(1000), c.kb[iReaction], Chem_RateProduct(c, iReaction, 1, 0, One)))

\* the residual, the source, the Jacobian and the record of each reaction's
\* pass; the buffers are zeroed first, the Jacobian under the implicit flag only
CSource_ComputeChemistry(c, val_residual_in, val_source_in, val_Jacobian_in) ==
  Chem_Reactions(c, 0,
    Store(val_residual_in, ZeroVec(nVarOf(c.nSpecies, c.nDim))),
    val_source_in,
    IF c.implicit THEN ZeroMat(nVarOf(c.nSpecies, c.nDim)) ELSE val_Jacobian_in,
    <<>>)

-----------------------------------------------------------------------------
(* The source kernels called on one cell                                   *)

\* bound of the reaction tables tried: 0..MaxRxn reactions
MaxRxn == 2

\* a mixture of a molecule A2 (species 0), its atom A (1) and a partner M (2)
\* on a plane mesh; a slot holding 3 lists no species
ChemReactions ==
  { <<<<0, 2, 3>>, <<1, 1, 2>>>>,      \* A2 + M -> A + A + M
    <<<<1, 1, 3>>, <<0, 3, 3>>>>,      \* A + A -> A2
    <<<<0, 3, 3>>, <<2, 3, 3>>>> }     \* A2 -> M

\* the reaction map as the configuration hands it over: [reaction][side][slot]
RxnMaps(n) ==
  { [r \in 0..(n - 1) |-> Vec(<<Vec(m[r][1]), Vec(m[r][2])>>)] :
      m \in [0..(n - 1) -> ChemReactions] }

RVec(t) == [k \in 0..(Len(t) - 1) |-> R(t[k + 1])]

\* the conserved vector with the species densities u, the other rows at rest
CellU(nSpecies, nDim, u) ==
  [k \in 0..(nVarOf(nSpecies, nDim) - 1) |-> IF k < nSpecies THEN R(u[k + 1]) ELSE Zero]

\* cells of that mixture with a table of n reactions: the time scheme, the
\* molar masses (2,1,3 balances the first two reactions, 3,1,3 the third), the
\* densities, the vibrational energies, the volume and the rate coefficients
ChemInputsOf(n) ==
  { [for |-> "chemistry", nSpecies |-> 3, nDim |-> 2, implicit |-> im,
     nReactions |-> n, RxnMap |-> m, Ms |-> RVec(ms), U_i |-> CellU(3, 2, u),
     eve_i |-> RVec(ev), Volume |-> R(vol),
     kf |-> [r \in 0..(n - 1) |-> R(k + r)], kb |-> [r \in 0..(n - 1) |-> Q(1, k)],
     dWdU |-> [r \in 0..(n - 1) |-> [j \in 0..6 |-> R(j - 2 + r)]],
     Cvve_i |-> RVec(<<1, 1, 2>>), dTvedU_i |-> [j \in 0..6 |-> R(1 - j)]] :
      im \in BOOLEAN, m \in RxnMaps(n),
      ms \in { <<2, 1, 3>>, <<3, 1, 3>> },
      u \in { <<1000, 1000, 3000>>, <<2000, 500, 1000>>, <<0, 1000, 1000>> },
      ev \in { <<1, 2, 0>>, <<0, 0, 0>> }, vol \in 1..2, k \in 1..2 }

ChemInputs == UNION { ChemInputsOf(n) : n \in 0..MaxRxn }

\* the caller has set the cell's state; no kernel has run and the buffers hold
\* leftovers
SourceInit ==
  /\ inst = NoInst
  /\ heap = {}
  /\ kernel = "none"
  /\ inp \in ChemInputs
  /\ prev = NoPrev
  /\ \E f \in PriorFill :
       /\ val_residual = ConstVec(nVarOf(inp.nSpecies, inp.nDim), f)
       /\ val_source = ConstVec(nVarOf(inp.nSpecies, inp.nDim), Add(f, One))
       /\ val_Jacobian_i = ConstMat(nVarOf(inp.nSpecies, inp.nDim), f)
  /\ val_Jacobian_j = NoBuf
  /\ scratch = NoScratch
  /\ proc = Running

\* the buffers as the kernel k leaves them; prev keeps what they held before
SourceDone(k, out, sc) ==
  /\ kernel' = k
  /\ prev' = [residual |-> val_residual, source |-> val_source,
              Jacobian_i |-> val_Jacobian_i, Jacobian_j |-> val_Jacobian_j]
  /\ val_residual' = out.residual
  /\ val_source' = out.source
  /\ val_Jacobian_i' = out.Jacobian_i
  /\ scratch' = sc
  /\ UNCHANGED <<inst, heap, inp, val_Jacobian_j, proc>>

\* the rates and rows of every pass of the reaction loop
Chem_Scratch(out) == [rxn |-> out.rxn]

ChemistryDone(out) == SourceDone("ComputeChemistry", out, Chem_Scratch(out))

ChemistryCall ==
  /\ kernel = "none"
  /\ inp.for = "chemistry"
  /\ ChemistryDone(CSource_ComputeChemistry(inp, val_residual, val_source, val_Jacobian_i))

SourceNext == ChemistryCall

SpecSource == SourceInit /\ [][SourceNext]_vars

-----------------------------------------------------------------------------
(* Chemistry: the species rows of one reaction                             *)

\* how often the species s is listed on a side of the reaction iReaction
SlotCount(c, iReaction, side, s) ==
  Cardinality({ ii \in 0..2 : c.RxnMap[iReaction][side][ii] = s })

\* the molar mass listed on a side of the reaction iReaction
ListedMass(c, iReaction, side) ==
  VSum([s \in 0..(c.nSpecies - 1) |->
          Mul(R(SlotCount(c, iReaction, side, s)), c.Ms[s])], c.nSpecies)

MassBalanced(c, iReaction) ==
  ListedMass(c, iReaction, 0) = ListedMass(c, iReaction, 1)

\* what the pass of the reaction iReaction added to the row s
RxnDelta(iReaction, s) ==
  Sub(scratch.rxn[iReaction + 1].after[s], scratch.rxn[iReaction + 1].before[s])

RxnNetRate(iReaction) ==
  Sub(scratch.rxn[iReaction + 1].fwdRxn, scratch.rxn[iReaction + 1].bkwRxn)

\* C5: in ComputeChemistry the pass of each reaction adds to the species row s
\* Ms[s]*(fwdRxn-bkwRxn)*Volume once per product slot listing s and subtracts
\* it once per reactant slot listing s; when the molar masses listed on the
\* two sides balance, the additions to the species rows sum to zero
C5_ReactionConservesMass ==
  kernel = "ComputeChemistry" =>
    \A iReaction \in 0..(inp.nReactions - 1) :
      /\ \A s \in 0..(inp.nSpecies - 1) :
           RxnDelta(iReaction, s) =
             Mul(R(SlotCount(inp, iReaction, 1, s) - SlotCount(inp, iReaction, 0, s)),
                 Mul3(inp.Ms[s], RxnNetRate(iReaction), inp.Volume))
      /\ MassBalanced(inp, iReaction) =>
           VSum([s \in 0..(inp.nSpecies - 1) |-> RxnDelta(iReaction, s)], inp.nSpecies) = Zero

\* the second reaction of a table is balanced, runs at a net rate that is not
\* zero on rows the first reaction has already filled, and moves mass
C5_Witness ==
  /\ kernel = "ComputeChemistry"
  /\ inp.nReactions = 2
  /\ MassBalanced(inp, 1)
  /\ RxnNetRate(1) # Zero
  /\ \E s \in 0..(inp.nSpecies - 1) :
       /\ scratch.rxn[2].before[s] # Zero
       /\ RxnDelta(1, s) # Zero

-----------------------------------------------------------------------------
(* Scratch-array accesses of the implicit blocks of the AUSM family         *)

\* the entries <<array, index>> that the access list acc reads (from its k-th
\* access on) before any earlier access of the list has written them
RECURSIVE UnwrittenReads(_, _, _)
UnwrittenReads(acc, k, written) ==
  IF k > Len(acc) THEN {}
  ELSE IF acc[k].op = "write"
    THEN UnwrittenReads(acc, k + 1,
                        written \cup { <<a, i>> : a \in acc[k].arrays, i \in acc[k].index })
    ELSE ({ <<a, i>> : a \in acc[k].arrays, i \in acc[k].index } \ written)
           \cup UnwrittenReads(acc, k + 1, written)

\* the entries <<array, index>> that the access list acc touches at or
\* beyond the allocated length len
OutOfBounds(acc, len) ==
  UNION { { <<a, i>> : a \in acc[k].arrays, i \in { x \in acc[k].index : x < 0 \/ x >= len } }
          : k \in 1..Len(acc) }

\* CUpwRoe_TNE2: Lambda is written in every row, then read by the entropy
\* correction: at iDim, which holds nDim-1 after the loop over the tangential
\* rows and 0..nDim-2 inside it, at the two acoustic rows, then in every row
Roe_Access(c) ==
  << [op |-> "write", arrays |-> {"Lambda"}, index |-> 0..(nVarOf(c.nSpecies, c.nDim) - 1)],
     [op |-> "read", arrays |-> {"Lambda"}, index |-> {c.nDim - 1}],
     [op |-> "read", arrays |-> {"Lambda"}, index |-> 0..(c.nDim - 2)],
     [op |-> "read", arrays |-> {"Lambda"},
      index |-> {c.nSpecies + c.nDim - 1, c.nSpecies + c.nDim}],
     [op |-> "read", arrays |-> {"Lambda"}, index |-> {c.nDim - 1}],
     [op |-> "read", arrays |-> {"Lambda", "Epsilon"},
      index |-> 0..(nVarOf(c.nSpecies, c.nDim) - 1)],
     [op |-> "write", arrays |-> {"Lambda"}, index |-> 0..(nVarOf(c.nSpecies, c.nDim) - 1)] >>

\* CUpwAUSM_TNE2 and CUpwAUSMPLUSUP2_TNE2: daL, daR are written for the heavy
\* species, the electrons (under ionization), the momentum and the two
\* energies, then read by the Jacobian terms
AUSM_Access(c) ==
  IF ~c.implicit THEN << >>
  ELSE << [op |-> "write", arrays |-> {"daL", "daR"},
           index |-> 0..((IF c.ionization THEN c.nSpecies - 1 ELSE c.nSpecies) - 1)],
          [op |-> "write", arrays |-> {"daL", "daR"},
           index |-> IF c.ionization THEN {c.nSpecies - 1} ELSE {}],
          [op |-> "write", arrays |-> {"daL", "daR"},
           index |-> c.nSpecies..(c.nSpecies + c.nDim + 1)],
          [op |-> "read", arrays |-> {"daL", "daR"},
           index |-> 0..(nVarOf(c.nSpecies, c.nDim) - 1)] >>

-----------------------------------------------------------------------------
(* Implicit parts of CUpwRoe_TNE2 and CCentLax_TNE2                        *)

\* The two Jacobians a flux scheme leaves: the caller's matrices when the
\* scheme is explicit.  Implicit: GetInviscidProjJac of the base class fills
\* the matrix with the scaled Jacobian of a state's projected flux (c.ProjJac_i
\* and c.ProjJac_j are what it returns for the two states), then
\* 0.5*Proj_ModJac_Tensor_ij*Area is added on the i side and subtracted on the
\* j side.
Roe_Jacobians(c, Area, Lambda, val_Jacobian_i_in, val_Jacobian_j_in) ==
  IF ~c.implicit
    THEN [Jacobian_i |-> val_Jacobian_i_in, Jacobian_j |-> val_Jacobian_j_in]
  ELSE [Jacobian_i |->
          Vector([iVar \in 0..(nVarOf(c.nSpecies, c.nDim) - 1) |->
                   [jVar \in 0..(nVarOf(c.nSpecies, c.nDim) - 1) |->
                      Add(c.ProjJac_i[iVar][jVar],
                          Mul3(Half, Roe_ProjModJac(c, Lambda, iVar, jVar), Area))]]),
        Jacobian_j |->
          Vector([iVar \in 0..(nVarOf(c.nSpecies, c.nDim) - 1) |->
                   [jVar \in 0..(nVarOf(c.nSpecies, c.nDim) - 1) |->
                      Sub(c.ProjJac_j[iVar][jVar],
                          Mul3(Half, Roe_ProjModJac(c, Lambda, iVar, jVar), Area))]])]

\* what the dissipation adds to the entry (iVar, jVar) of val_Jacobian_i; the
\* total-energy row carries the pressure derivatives because Diff_U holds a
\* difference of rho*h there
CentLax_JacobianTerm_i(c, cte, iVar, jVar) ==
  IF iVar = c.nSpecies + c.nDim
    THEN IF jVar = c.nSpecies + c.nDim THEN Mul(cte, Add(One, c.dPdU_i[jVar]))
         ELSE Mul(cte, c.dPdU_i[jVar])
  ELSE IF iVar = jVar THEN cte ELSE Zero

\* what it subtracts from the entry (iVar, jVar) of val_Jacobian_j; every
\* momentum column of the total-energy row takes dPdU_j[nSpecies+nDim]
CentLax_JacobianTerm_j(c, cte, iVar, jVar) ==
  IF iVar = c.nSpecies + c.nDim
    THEN IF jVar = c.nSpecies + c.nDim THEN Mul(cte, Add(One, c.dPdU_j[jVar]))
         ELSE IF c.nSpecies <= jVar /\ jVar < c.nSpecies + c.nDim
           THEN Mul(cte, c.dPdU_j[c.nSpecies + c.nDim])
         ELSE Mul(cte, c.dPdU_j[jVar])
  ELSE IF iVar = jVar THEN cte ELSE Zero

\* implicit: val_Jacobian_i is the Jacobian of the mean state's flux
\* (c.ProjJac), val_Jacobian_j a copy of it, then the dissipation terms with
\* cte = Epsilon_0*StretchingFactor*MeanLambda
CentLax_Jacobians(c, cte, val_Jacobian_i_in, val_Jacobian_j_in) ==
  IF ~c.implicit
    THEN [Jacobian_i |-> val_Jacobian_i_in, Jacobian_j |-> val_Jacobian_j_in]
  ELSE [Jacobian_i |->
          Vector([iVar \in 0..(nVarOf(c.nSpecies, c.nDim) - 1) |->
                   [jVar \in 0..(nVarOf(c.nSpecies, c.nDim) - 1) |->
                      Add(c.ProjJac[iVar][jVar], CentLax_JacobianTerm_i(c, cte, iVar, jVar))]]),
        Jacobian_j |->
          Vector([iVar \in 0..(nVarOf(c.nSpecies, c.nDim) - 1) |->
                   [jVar \in 0..(nVarOf(c.nSpecies, c.nDim) - 1) |->
                      Sub(c.ProjJac[iVar][jVar], CentLax_JacobianTerm_j(c, cte, iVar, jVar))]])]

-----------------------------------------------------------------------------
(* Implicit part of CUpwAUSM_TNE2 and CUpwAUSMPLUSUP2_TNE2                 *)
(* The two schemes share the block; plain AUSM runs it with the sound      *)
(* speeds a_i, a_j of the cells, AUSM+-up2 with the interface speed aF on  *)
(* both sides.  A side s is the record of what the block reads of a cell:  *)
(* rho, P, h, rhoCvtr, a, u, ProjVel, dPdU.                                *)

AUSM_Side(c, V, dPdU, a, UnitNormal) ==
  [rho |-> V[RHO_INDEX(c.nSpecies, c.nDim)], P |-> V[P_INDEX(c.nSpecies, c.nDim)],
   h |-> V[H_INDEX(c.nSpecies, c.nDim)], rhoCvtr |-> V[RHOCVTR_INDEX(c.nSpecies, c.nDim)],
   a |-> a, u |-> [iDim \in 0..(c.nDim - 1) |-> V[VEL_INDEX(c.nSpecies) + iDim]],
   ProjVel |-> ProjVel(c.nSpecies, c.nDim, V, UnitNormal), dPdU |-> dPdU]

\* daL / daR: the derivative of the sound speed by every conserved variable;
\* heavy species, the electrons of an ionized mixture, momentum, the energies
AUSM_da(c, s) ==
  Vector([jVar \in 0..(nVarOf(c.nSpecies, c.nDim) - 1) |->
    IF c.ionization /\ jVar = c.nSpecies - 1
      THEN Mul3(Div(One, Mul3(R(2), s.a, s.rho)), Add(One, s.dPdU[c.nSpecies + c.nDim]),
                Sub(s.dPdU[jVar], Div(s.P, s.rho)))
    ELSE IF jVar < c.nSpecies
      THEN Mul(Div(One, Mul(R(2), s.a)),
               Add(Mul(Mul(Div(One, s.rhoCvtr),
                           Sub(Div(c.Ru, c.Ms[jVar]),
                               Mul(Div(Mul(Add(Q(3, 2), Div(c.xi[jVar], R(2))), c.Ru), c.Ms[jVar]),
                                   s.dPdU[c.nSpecies + c.nDim]))),
                       Div(s.P, s.rho)),
                   Mul3(Div(One, s.rho), Add(One, s.dPdU[c.nSpecies + c.nDim]),
                        Sub(s.dPdU[jVar], Div(s.P, s.rho)))))
    ELSE IF jVar < c.nSpecies + c.nDim
      THEN Mul3(Div(R(-1), Mul3(R(2), s.rho, s.a)),
                Mul(Add(One, s.dPdU[c.nSpecies + c.nDim]), s.dPdU[c.nSpecies + c.nDim]),
                s.u[jVar - c.nSpecies])
    ELSE Mul(Div(One, Mul3(R(2), s.rho, s.a)),
             Mul(Add(One, s.dPdU[c.nSpecies + c.nDim]), s.dPdU[jVar]))])

\* derivative of the Mach number of the side by the conserved variable jVar
AUSM_dM(c, s, da, UnitNormal, jVar) ==
  IF jVar < c.nSpecies
    THEN Sub(Div(Neg(s.ProjVel), Mul(s.rho, s.a)),
             Div(Mul(s.ProjVel, da[jVar]), Mul(s.a, s.a)))
  ELSE IF jVar < c.nSpecies + c.nDim
    THEN Add(Mul(Div(Neg(s.ProjVel), Mul(s.a, s.a)), da[jVar]),
             Div(UnitNormal[jVar - c.nSpecies], Mul(s.rho, s.a)))
  ELSE Mul(Div(Neg(s.ProjVel), Mul(s.a, s.a)), da[jVar])

\* derivative of the pressure of the side by the conserved variable jVar
AUSM_dP(c, s, jVar) ==
  IF c.nSpecies <= jVar /\ jVar < c.nSpecies + c.nDim
    THEN Mul(Neg(s.u[jVar - c.nSpecies]), s.dPdU[c.nSpecies + c.nDim])
  ELSE s.dPdU[jVar]

\* dmLP[jVar] (sgn = 1, m = mL) and dmRM[jVar] (sgn = -1, m = mR)
AUSM_dmSplit(c, s, da, UnitNormal, m, sgn, jVar) ==
  IF Le(Fabs(m), One)
    THEN Mul(Mul3(R(sgn), Half, Add(m, R(sgn))), AUSM_dM(c, s, da, UnitNormal, jVar))
  ELSE AUSM_dM(c, s, da, UnitNormal, jVar)

\* dpLP[jVar] (sgn = 1, m = mL) and dpRM[jVar] (sgn = -1, m = mR)
AUSM_dpSplit(c, s, da, UnitNormal, m, sgn, jVar) ==
  IF Le(Fabs(m), One)
    THEN Mul(Mul(Quarter, Add(m, R(sgn))),
             Add(Mul3(AUSM_dP(c, s, jVar), Add(m, R(sgn)), Sub(R(2), Mul(R(sgn), m))),
                 Mul3(s.P, AUSM_dM(c, s, da, UnitNormal, jVar),
                      Sub(R(3), Mul(R(3 * sgn), m)))))
  ELSE AUSM_dP(c, s, jVar)

\* the dFc terms of the entry (iVar, jVar): mF times the derivative of the
\* convective vector Fc of the side
AUSM_dFc(c, s, da, Fc, mF, iVar, jVar) ==
  IF iVar = c.nSpecies + c.nDim
    THEN Mul(mF,
             Add(IF jVar < c.nSpecies THEN Mul(s.dPdU[jVar], s.a)
                 ELSE IF jVar < c.nSpecies + c.nDim
                   THEN Mul3(Neg(s.dPdU[c.nSpecies + c.nDim]), s.u[jVar - c.nSpecies], s.a)
                 ELSE IF jVar = c.nSpecies + c.nDim
                   THEN Mul(Add(One, s.dPdU[jVar]), s.a)
                 ELSE Mul(s.dPdU[jVar], s.a),
                 Mul3(s.rho, s.h, da[jVar])))
  ELSE Add(Mul(Div(Mul(mF, Fc[iVar]), s.a), da[jVar]),
           IF iVar = jVar THEN Mul(mF, s.a) ELSE Zero)

\* one Jacobian: zeroed; the dFc terms if the side is upwind (mF >= 0 left,
\* mF < 0 right); the dM and dP terms if it is upwind or the face is subsonic;
\* then every entry times Area.  FcLR is FcL if mF >= 0 and FcR otherwise.
AUSM_JacobianEntries(c, s, da, UnitNormal, Area, Fc, FcLR, mF, m, sgn) ==
  Vector([iVar \in 0..(nVarOf(c.nSpecies, c.nDim) - 1) |->
    [jVar \in 0..(nVarOf(c.nSpecies, c.nDim) - 1) |->
       Mul(Add(Add(Add(Zero,
                       IF (sgn = 1 /\ Ge(mF, Zero)) \/ (sgn = -1 /\ Lt(mF, Zero))
                         THEN AUSM_dFc(c, s, da, Fc, mF, iVar, jVar) ELSE Zero),
                   IF (Ge(mF, Zero) \/ Lt(mF, Zero))
                        /\ ((sgn = 1 /\ Ge(mF, Zero)) \/ (sgn = -1 /\ Lt(mF, Zero))
                            \/ Le(Fabs(mF), One))
                     THEN Mul(AUSM_dmSplit(c, s, da, UnitNormal, m, sgn, jVar), FcLR[iVar])
                     ELSE Zero),
               IF (c.nSpecies <= iVar /\ iVar < c.nSpecies + c.nDim)
                    /\ (Ge(mF, Zero) \/ Lt(mF, Zero))
                    /\ ((sgn = 1 /\ Ge(mF, Zero)) \/ (sgn = -1 /\ Lt(mF, Zero))
                        \/ Le(Fabs(mF), One))
                 THEN Mul(AUSM_dpSplit(c, s, da, UnitNormal, m, sgn, jVar),
                          UnitNormal[iVar - c.nSpecies])
                 ELSE Zero),
           Area)]])

AUSM_JacobianSide(c, s, UnitNormal, Area, Fc, FcLR, mF, m, sgn) ==
  AUSM_JacobianEntries(c, s, AUSM_da(c, s), UnitNormal, Area, Fc, FcLR, mF, m, sgn)

\* the two Jacobians the scheme leaves: the caller's matrices when it is
\* explicit
AUSM_Jacobians(c, UnitNormal, Area, a_i, a_j, FcL, FcR, mL, mR, mF, val_Jacobian_i_in, val_Jacobian_j_in) ==
  IF ~c.implicit
    THEN [Jacobian_i |-> val_Jacobian_i_in, Jacobian_j |-> val_Jacobian_j_in]
  ELSE [Jacobian_i |->
          AUSM_JacobianSide(c, AUSM_Side(c, c.V_i, c.dPdU_i, a_i, UnitNormal), UnitNormal, Area,
                            FcL, IF Ge(mF, Zero) THEN FcL ELSE FcR, mF, mL, 1),
        Jacobian_j |->
          AUSM_JacobianSide(c, AUSM_Side(c, c.V_j, c.dPdU_j, a_j, UnitNormal), UnitNormal, Area,
                            FcR, IF Ge(mF, Zero) THEN FcL ELSE FcR, mF, mR, -1)]

-----------------------------------------------------------------------------
(* CUpwMSW_TNE2::ComputeResidual                                           *)

\* w = 0.5/((alpha*dp)^2 + 1) with alpha = 5 and dp = |P_j-P_i|/min(P_j,P_i)
MSW_w(c) ==
  Mul(Half,
      Div(One,
          Add(Sq(Mul(R(5),
                     Div(Fabs(Sub(c.V_j[P_INDEX(c.nSpecies, c.nDim)], c.V_i[P_INDEX(c.nSpecies, c.nDim)])),
                         Min(c.V_j[P_INDEX(c.nSpecies, c.nDim)], c.V_i[P_INDEX(c.nSpecies, c.nDim)])))),
              One)))

\* the weighted (star) value (1-w)*x + w*y
MSW_Star(w, x, y) == Add(Mul(Sub(One, w), x), Mul(w, y))

\* variant: the root is added on both sides
MSW_Lambda_RootAdded(c, ProjVelst, a, sgn) ==
  Vector([kVar \in 0..(nVarOf(c.nSpecies, c.nDim) - 1) |->
    IF kVar = c.nSpecies + c.nDim - 1
      THEN Mul(Half, Add(Add(ProjVelst, a), Sqrt(Add(Sq(Add(ProjVelst, a)), Sq(Zero)))))
    ELSE IF kVar = c.nSpecies + c.nDim
      THEN Mul(Half, Add(Sub(ProjVelst, a), Sqrt(Add(Sq(Sub(ProjVelst, a)), Sq(Zero)))))
    ELSE Mul(Half, Add(ProjVelst, Sqrt(Add(Sq(ProjVelst), Sq(Zero)))))])

\* Lambda_i (sgn = 1) and Lambda_j (sgn = -1) of a star state with normal
\* velocity ProjVelst and sound speed a: 0.5*(x + sgn*sqrt(x*x + epsilon^2))
\* with epsilon = 0, x being u, u+a at nSpecies+nDim-1 and u-a at nSpecies+nDim
MSW_Lambda(c, ProjVelst, a, sgn) ==
  Vector([kVar \in 0..(nVarOf(c.nSpecies, c.nDim) - 1) |->
    IF kVar = c.nSpecies + c.nDim - 1
      THEN Mul(Half, Add(Add(ProjVelst, a),
                         Mul(R(sgn), Sqrt(Add(Sq(Add(ProjVelst, a)), Sq(Zero))))))
    ELSE IF kVar = c.nSpecies + c.nDim
      THEN Mul(Half, Add(Sub(ProjVelst, a),
                         Mul(R(sgn), Sqrt(Add(Sq(Sub(ProjVelst, a)), Sq(Zero))))))
    ELSE Mul(Half, Add(ProjVelst, Mul(R(sgn), Sqrt(Add(Sq(ProjVelst), Sq(Zero))))))])

\* Proj_ModJac_Tensor = P x Lambda x inverse P, entry (iVar, jVar)
MSW_ProjModJac(c, eb, Lambda, iVar, jVar) ==
  VSum([kVar \in 0..(nVarOf(c.nSpecies, c.nDim) - 1) |->
          Mul3(eb.P_Tensor[iVar][kVar], Lambda[kVar], eb.invP_Tensor[kVar][jVar])],
       nVarOf(c.nSpecies, c.nDim))

\* Fc[iVar] = sum over jVar of Proj_ModJac_Tensor*U[jVar]*Area, from zero
MSW_Fc(c, eb, Lambda, U, Area) ==
  Vector([iVar \in 0..(nVarOf(c.nSpecies, c.nDim) - 1) |->
    VSum([jVar \in 0..(nVarOf(c.nSpecies, c.nDim) - 1) |->
            Mul3(MSW_ProjModJac(c, eb, Lambda, iVar, jVar), U[jVar], Area)],
         nVarOf(c.nSpecies, c.nDim))])

\* variant: the Jacobian is written whatever the time scheme
MSW_Jacobian_Unguarded(c, eb, Lambda, Area, val_Jacobian_in) ==
  Vector([iVar \in 0..(nVarOf(c.nSpecies, c.nDim) - 1) |->
    [jVar \in 0..(nVarOf(c.nSpecies, c.nDim) - 1) |->
       Add(Zero, Mul(MSW_ProjModJac(c, eb, Lambda, iVar, jVar), Area))]])

\* implicit: the Jacobian is zeroed and Proj_ModJac_Tensor*Area added to it
MSW_Jacobian(c, eb, Lambda, Area, val_Jacobian_in) ==
  IF ~c.implicit THEN val_Jacobian_in
  ELSE Vector([iVar \in 0..(nVarOf(c.nSpecies, c.nDim) - 1) |->
         [jVar \in 0..(nVarOf(c.nSpecies, c.nDim) - 1) |->
            Add(Zero, Mul(MSW_ProjModJac(c, eb, Lambda, iVar, jVar), Area))]])

\* what GetPMatrix and GetPMatrix_inv are handed for one side: Ust and Vst of
\* the side, and the dPdU of the cell itself
MSW_PMatrixArguments(w, U, U_other, V, V_other, dPdU) ==
  [U |-> [k \in DOMAIN U |-> MSW_Star(w, U[k], U_other[k])],
   V |-> [k \in DOMAIN V |-> MSW_Star(w, V[k], V_other[k])],
   dPdU |-> dPdU]

\* val_residual = Fc_i + Fc_j
MSW_Split(c, b, Area, w, Lambda_i, Lambda_j) ==
  [residual |-> Store(b.residual,
                      [iVar \in 0..(nVarOf(c.nSpecies, c.nDim) - 1) |->
                         Add(MSW_Fc(c, c.eb_i, Lambda_i, c.U_i, Area)[iVar],
                             MSW_Fc(c, c.eb_j, Lambda_j, c.U_j, Area)[iVar])]),
   source |-> b.source,
   Jacobian_i |-> MSW_Jacobian(c, c.eb_i, Lambda_i, Area, b.Jacobian_i),
   Jacobian_j |-> MSW_Jacobian(c, c.eb_j, Lambda_j, Area, b.Jacobian_j),
   scratch |-> [w |-> w, Lambda_i |-> Lambda_i, Lambda_j |-> Lambda_j,
                GetPMatrix_i |-> MSW_PMatrixArguments(w, c.U_i, c.U_j, c.V_i, c.V_j, c.dPdU_i),
                GetPMatrix_j |-> MSW_PMatrixArguments(w, c.U_j, c.U_i, c.V_j, c.V_i, c.dPdU_j)]]

\* the eigenvalues of the two star states; the eigenvector matrices of the two
\* sides (c.eb_i, c.eb_j) are what GetPMatrix and GetPMatrix_inv return
MSW_Eigenvalues(c, b, Area, UnitNormal, w) ==
  MSW_Split(c, b, Area, w,
    MSW_Lambda(c, MSW_Star(w, ProjVel(c.nSpecies, c.nDim, c.V_i, UnitNormal),
                              ProjVel(c.nSpecies, c.nDim, c.V_j, UnitNormal)),
               MSW_Star(w, c.V_i[A_INDEX(c.nSpecies, c.nDim)], c.V_j[A_INDEX(c.nSpecies, c.nDim)]), 1),
    MSW_Lambda(c, MSW_Star(w, ProjVel(c.nSpecies, c.nDim, c.V_j, UnitNormal),
                              ProjVel(c.nSpecies, c.nDim, c.V_i, UnitNormal)),
               MSW_Star(w, c.V_j[A_INDEX(c.nSpecies, c.nDim)], c.V_i[A_INDEX(c.nSpecies, c.nDim)]), -1))

\* what one call leaves in the caller's buffers b and the scratch arrays sc
CUpwMSW_ComputeResidual(c, b) ==
  MSW_Eigenvalues(c, b, FaceArea(c.Normal, c.nDim), FaceUnitNormal(c.Normal, c.nDim),
                  MSW_w(c))

-----------------------------------------------------------------------------
(* CUpwAUSMPWplus_TNE2::ComputeResidual                                    *)

\* the variables pulled from one side: the velocity components and the
\* pressure are set to 0.0 (the loads from V are commented out)
PW_Side(c, U, V, dPdU, UnitNormal) ==
  [u |-> ZeroVec(c.nDim),
   P |-> Zero,
   h |-> V[H_INDEX(c.nSpecies, c.nDim)],
   rho |-> V[RHO_INDEX(c.nSpecies, c.nDim)],
   rhoEve |-> U[c.nSpecies + c.nDim + 1],
   gtl |-> Add(Div(VSum([s \in 0..(c.nSpecies - 1) |->
                           Div(Mul(V[RHOS_INDEX + s], c.Ru), c.Ms[s])], c.nSpecies),
                   Add(V[RHOCVTR_INDEX(c.nSpecies, c.nDim)], V[RHOCVVE_INDEX(c.nSpecies, c.nDim)])),
               One),
   ProjVel |-> Dot(ZeroVec(c.nDim), UnitNormal, c.nDim),
   sqV |-> VSum([k \in 0..(c.nDim - 1) |->
                   Sq(Sub(Zero, Mul(Dot(ZeroVec(c.nDim), UnitNormal, c.nDim), UnitNormal[k])))],
                c.nDim),
   dPdU |-> dPdU,
   Fc |-> Vector([k \in 0..(nVarOf(c.nSpecies, c.nDim) - 1) |->
            IF k < c.nSpecies THEN V[RHOS_INDEX + k]
            ELSE IF k < c.nSpecies + c.nDim THEN Mul(V[RHO_INDEX(c.nSpecies, c.nDim)], Zero)
            ELSE IF k = c.nSpecies + c.nDim
              THEN Mul(V[RHO_INDEX(c.nSpecies, c.nDim)], V[H_INDEX(c.nSpecies, c.nDim)])
            ELSE U[c.nSpecies + c.nDim + 1]])]

\* interface speed of sound: atl from the normal total enthalpy Hnorm, then
\* aij = atl^2/max(|ProjVel|, atl) of the upwind side
PW_atl(L, Rr, Hnorm) ==
  IF Lt(Div(Fabs(Sub(L.rho, Rr.rho)), Mul(Half, Add(L.rho, Rr.rho))), Q(1, 1000))
    THEN Sqrt(Div(Mul3(R(2), Hnorm, Sub(Mul(Half, Add(L.gtl, Rr.gtl)), One)),
                  Add(Mul(Half, Add(L.gtl, Rr.gtl)), One)))
    ELSE Sqrt(Mul3(R(2), Hnorm,
                   Div(Sub(Div(Sub(L.gtl, One), Mul(L.gtl, L.rho)),
                           Div(Sub(Rr.gtl, One), Mul(Rr.gtl, Rr.rho))),
                       Sub(Div(Add(Rr.gtl, One), Mul(Rr.gtl, L.rho)),
                           Div(Add(L.gtl, One), Mul(L.gtl, Rr.rho))))))

PW_aij(L, Rr, atl) ==
  IF Ge(Mul(Half, Add(L.ProjVel, Rr.ProjVel)), Zero)
    THEN Div(Sq(atl), Max(Fabs(L.ProjVel), atl))
    ELSE Div(Sq(atl), Max(Fabs(Rr.ProjVel), atl))

\* split Mach number: mLP (sgn = 1) of mL, mRM (sgn = -1) of mR
PW_mSplit(m, sgn) ==
  IF Le(Fabs(m), One) THEN Mul3(R(sgn), Quarter, Sq(Add(m, R(sgn))))
  ELSE Mul(Half, Add(m, Mul(R(sgn), Fabs(m))))

\* split pressure: pLP (sgn = 1) of mL and P_i, pRM (sgn = -1) of mR and P_j,
\* with alpha = 3/16
PW_pSplit(m, P, sgn) ==
  IF Le(Fabs(m), One)
    THEN Mul(P, Add(Mul3(Quarter, Sq(Add(m, R(sgn))), Sub(R(2), Mul(R(sgn), m))),
                    Mul4(R(sgn), Q(3, 16), m, Sq(Sub(Sq(m), One)))))
    ELSE Div(Mul3(P, Half, Add(m, Mul(R(sgn), Fabs(m)))), m)

\* w = 1 - min(P_i/P_j, P_j/P_i)^3
PW_w(P_i, P_j) ==
  Sub(One, Mul3(Min(Div(P_i, P_j), Div(P_j, P_i)), Min(Div(P_i, P_j), Div(P_j, P_i)),
                Min(Div(P_i, P_j), Div(P_j, P_i))))

\* the modified f function of one side
PW_f(m, P, ps) == IF Lt(Fabs(m), One) THEN Sub(Div(P, ps), One) ELSE Zero

\* the modified split Mach numbers mbLP, mbRM
PW_mb(mLP, mRM, w, fL, fR) ==
  IF Ge(Add(mLP, mRM), Zero)
    THEN [mbLP |-> Add(mLP, Mul(mRM, Sub(Mul(Sub(One, w), Add(One, fR)), fL))),
          mbRM |-> Mul3(mRM, w, Add(One, fR))]
    ELSE [mbLP |-> Mul3(mLP, w, Add(One, fL)),
          mbRM |-> Add(mRM, Mul(mLP, Sub(Add(Mul(Sub(One, w), Add(One, fL)), fL), fR)))]

\* val_residual = (mbLP*aij*FcL + mbRM*aij*FcR)*Area, the pressure added to
\* the momentum rows
PW_Residual(c, val_residual_in, Area, UnitNormal, L, Rr, aij, mb, pLP, pRM) ==
  Accumulate(
    Store(Store(val_residual_in, ZeroVec(nVarOf(c.nSpecies, c.nDim))),
          [iVar \in 0..(nVarOf(c.nSpecies, c.nDim) - 1) |->
             Mul(Add(Mul3(mb.mbLP, aij, L.Fc[iVar]), Mul3(mb.mbRM, aij, Rr.Fc[iVar])), Area)]),
    [k \in c.nSpecies..(c.nSpecies + c.nDim - 1) |->
       Mul(Add(Mul(pLP, UnitNormal[k - c.nSpecies]), Mul(pRM, UnitNormal[k - c.nSpecies])), Area)])

\* d(m of side s)/dU[jVar] of the side `own` says it is: the daL, daR entries
\* are read from the array da, which no statement of the function writes
PW_dm(c, s, aij, UnitNormal, da, jVar, own) ==
  Add(IF ~own \/ jVar >= c.nSpecies + c.nDim THEN Zero
      ELSE IF jVar < c.nSpecies THEN Div(Neg(s.ProjVel), Mul(s.rho, aij))
      ELSE Div(UnitNormal[jVar - c.nSpecies], Mul(s.rho, aij)),
      Mul(Div(Neg(s.ProjVel), Mul(aij, aij)), da[jVar]))

\* dpLPdL, dpLPdR (sgn = 1) and dpRMdR, dpRMdL (sgn = -1)
PW_dp(c, s, m, pSplit, dm, jVar, own, sgn) ==
  IF Le(Fabs(m), One)
    THEN Add(IF own THEN Div(Mul(s.dPdU[jVar], pSplit), s.P) ELSE Zero,
             Mul3(s.P,
                  Add(Add(Add(Mul3(Half, Add(m, R(sgn)), Sub(R(2), Mul(R(sgn), m))),
                              Mul3(R(-sgn), Quarter, Sq(Add(m, R(sgn))))),
                          Mul3(R(sgn), Q(3, 16), Sq(Sub(Sq(m), One)))),
                      Mul4(R(4 * sgn), Q(3, 16), Sq(m), Sub(Sq(m), One))),
                  dm))
    ELSE IF own THEN Div(Mul3(s.dPdU[jVar], Half, Add(m, Fabs(m))), m) ELSE Zero

\* one Jacobian (side s of it): zeroed, then the flux, sound-speed, diagonal,
\* energy-row and pressure terms added.  dmbLP, dmbRM are the dmbLPd*, dmbRMd*
\* arrays as the loops read them (entries 0..nVar-1) and da is daL or daR.
PW_Jacobian(c, Area, UnitNormal, L, Rr, s, aij, mb, mbs, dmbLP, dmbRM, da, dpLP, dpRM) ==
  Vector([iVar \in 0..(nVarOf(c.nSpecies, c.nDim) - 1) |->
    [jVar \in 0..(nVarOf(c.nSpecies, c.nDim) - 1) |->
      Add(Add(Add(Add(Add(Zero,
        Mul3(Add(Mul(dmbLP[jVar], L.Fc[iVar]), Mul(dmbRM[jVar], Rr.Fc[iVar])), aij, Area)),
        Mul3(Add(Mul(mb.mbLP, L.Fc[iVar]), Mul(mb.mbRM, Rr.Fc[iVar])), da[jVar], Area)),
        IF iVar = jVar THEN Mul3(mbs, aij, Area) ELSE Zero),
        IF iVar = c.nSpecies + c.nDim THEN Mul4(mbs, aij, s.dPdU[jVar], Area) ELSE Zero),
        IF iVar >= c.nSpecies /\ iVar < c.nSpecies + c.nDim
          THEN Add(Mul3(dpLP[jVar], UnitNormal[iVar - c.nSpecies], Area),
                   Mul3(dpRM[jVar], UnitNormal[iVar - c.nSpecies], Area))
          ELSE Zero)]])

\* the scratch entries the implicit block touches, in program order: daL, daR
\* are only read; the dmb arrays are written once, at the index iVar holds
\* after the loops before (nVar), and read at 0..nVar-1
PW_Access(c) ==
  IF ~c.implicit THEN << >>
  ELSE << [op |-> "read", arrays |-> {"daL", "daR"},
           index |-> 0..(nVarOf(c.nSpecies, c.nDim) - 1)],
          [op |-> "write", arrays |-> {"dmLPdL", "dmLPdR", "dmRMdR", "dmRMdL"},
           index |-> 0..(nVarOf(c.nSpecies, c.nDim) - 1)],
          [op |-> "read", arrays |-> {"dmLPdL", "dmLPdR", "dmRMdR", "dmRMdL"},
           index |-> {nVarOf(c.nSpecies, c.nDim)}],
          [op |-> "write", arrays |-> {"dmbLPdL", "dmbLPdR", "dmbRMdR", "dmbRMdL"},
           index |-> {nVarOf(c.nSpecies, c.nDim)}],
          [op |-> "read", arrays |-> {"dmbLPdL", "dmbLPdR", "dmbRMdR", "dmbRMdL"},
           index |-> 0..(nVarOf(c.nSpecies, c.nDim) - 1)],
          [op |-> "read", arrays |-> {"daL", "daR"},
           index |-> 0..(nVarOf(c.nSpecies, c.nDim) - 1)] >>

\* the implicit block; the entries of daL, daR and of the dmb arrays it reads
\* hold what the allocation left there (c.uninit)
PW_Implicit(c, b, Area, UnitNormal, L, Rr, aij, mL, mR, mb, pLP, pRM, residual) ==
  [residual |-> residual,
   source |-> b.source,
   Jacobian_i |->
     IF ~c.implicit THEN b.Jacobian_i
     ELSE PW_Jacobian(c, Area, UnitNormal, L, Rr, L, aij, mb, mb.mbLP,
            c.uninit, c.uninit, c.uninit,
            [jVar \in 0..(nVarOf(c.nSpecies, c.nDim) - 1) |->
               PW_dp(c, L, mL, pLP, PW_dm(c, L, aij, UnitNormal, c.uninit, jVar, TRUE), jVar, TRUE, 1)],
            [jVar \in 0..(nVarOf(c.nSpecies, c.nDim) - 1) |->
               PW_dp(c, Rr, mR, pRM, PW_dm(c, Rr, aij, UnitNormal, c.uninit, jVar, FALSE), jVar, FALSE, -1)]),
   Jacobian_j |->
     IF ~c.implicit THEN b.Jacobian_j
     ELSE PW_Jacobian(c, Area, UnitNormal, L, Rr, Rr, aij, mb, mb.mbRM,
            c.uninit, c.uninit, c.uninit,
            [jVar \in 0..(nVarOf(c.nSpecies, c.nDim) - 1) |->
               PW_dp(c, L, mL, pLP, PW_dm(c, L, aij, UnitNormal, c.uninit, jVar, FALSE), jVar, FALSE, 1)],
            [jVar \in 0..(nVarOf(c.nSpecies, c.nDim) - 1) |->
               PW_dp(c, Rr, mR, pRM, PW_dm(c, Rr, aij, UnitNormal, c.uninit, jVar, TRUE), jVar, TRUE, -1)]),
   scratch |-> [aij |-> aij, mbLP |-> mb.mbLP, mbRM |-> mb.mbRM,
                u_i |-> L.u, u_j |-> Rr.u, P_i |-> L.P, P_j |-> Rr.P,
                FcL |-> L.Fc, FcR |-> Rr.Fc, mL |-> mL, mR |-> mR,
                unwritten |-> UnwrittenReads(PW_Access(c), 1, {}),
                outside |-> OutOfBounds(PW_Access(c), nVarOf(c.nSpecies, c.nDim))]]

PW_Flux(c, b, Area, UnitNormal, L, Rr, aij, mL, mR, pLP, pRM, w) ==
  PW_Implicit(c, b, Area, UnitNormal, L, Rr, aij, mL, mR,
    PW_mb(PW_mSplit(mL, 1), PW_mSplit(mR, -1), w,
          PW_f(mL, L.P, Add(pLP, pRM)), PW_f(mR, Rr.P, Add(pLP, pRM))),
    pLP, pRM,
    PW_Residual(c, b.residual, Area, UnitNormal, L, Rr, aij,
      PW_mb(PW_mSplit(mL, 1), PW_mSplit(mR, -1), w,
            PW_f(mL, L.P, Add(pLP, pRM)), PW_f(mR, Rr.P, Add(pLP, pRM))),
      pLP, pRM))

PW_Mach(c, b, Area, UnitNormal, L, Rr, aij) ==
  PW_Flux(c, b, Area, UnitNormal, L, Rr, aij,
          Div(L.ProjVel, aij), Div(Rr.ProjVel, aij),
          PW_pSplit(Div(L.ProjVel, aij), L.P, 1), PW_pSplit(Div(Rr.ProjVel, aij), Rr.P, -1),
          PW_w(L.P, Rr.P))

PW_Sound(c, b, Area, UnitNormal, L, Rr) ==
  PW_Mach(c, b, Area, UnitNormal, L, Rr,
          PW_aij(L, Rr, PW_atl(L, Rr,
            Mul(Half, Sub(Add(Sub(L.h, Mul(Half, L.sqV)), Rr.h), Mul(Half, Rr.sqV))))))

PW_Geometry(c, b, Area, UnitNormal) ==
  PW_Sound(c, b, Area, UnitNormal,
           PW_Side(c, c.U_i, c.V_i, c.dPdU_i, UnitNormal),
           PW_Side(c, c.U_j, c.V_j, c.dPdU_j, UnitNormal))

\* what one call leaves in the caller's buffers b and the scratch arrays
CUpwAUSMPWplus_ComputeResidual(c, b) ==
  PW_Geometry(c, b, FaceArea(c.Normal, c.nDim), FaceUnitNormal(c.Normal, c.nDim))

-----------------------------------------------------------------------------
(* Scratch buffers of the scheme classes                                   *)
(* new: the arrays the constructor allocates, in order; delete: the arrays *)
(* the destructor releases, in order.  "P_Tensor[]" stands for the rows of *)
(* P_Tensor, allocated and released by loops of the same length.           *)

CUpwRoe_TNE2_Buffers ==
  [new    |-> <<"Diff_U", "RoeU", "RoeV", "RoedPdU", "RoeEve", "Lambda",
              "Epsilon", "P_Tensor", "invP_Tensor", "P_Tensor[]",
              "invP_Tensor[]", "ProjFlux_i", "ProjFlux_j">>,
   delete |-> <<"Diff_U", "RoeU", "RoeV", "RoedPdU", "RoeEve", "Lambda",
              "Epsilon", "P_Tensor[]", "invP_Tensor[]", "P_Tensor",
              "invP_Tensor", "ProjFlux_i", "ProjFlux_j">>]

CUpwMSW_TNE2_Buffers ==
  [new    |-> <<"Diff_U", "Fc_i", "Fc_j", "Lambda_i", "Lambda_j", "rhos_i",
              "rhos_j", "rhosst_i", "rhosst_j", "u_i", "u_j", "ust_i", "ust_j",
              "Vst_i", "Vst_j", "Ust_i", "Ust_j", "Evest_i", "Evest_j",
              "dPdUst_i", "dPdUst_j", "P_Tensor", "invP_Tensor", "P_Tensor[]",
              "invP_Tensor[]">>,
   delete |-> <<"Diff_U", "Fc_i", "Fc_j", "Lambda_i", "Lambda_j", "rhos_i",
              "rhos_j", "rhosst_i", "rhosst_j", "u_i", "u_j", "ust_i", "ust_j",
              "Ust_i", "Vst_i", "Ust_j", "Vst_j", "Evest_i", "Evest_j",
              "dPdUst_i", "dPdUst_j", "P_Tensor[]", "invP_Tensor[]",
              "P_Tensor", "invP_Tensor">>]

CUpwAUSM_TNE2_Buffers ==
  [new    |-> <<"FcL", "FcR", "dmLP", "dmRM", "dpLP", "dpRM", "daL", "daR",
              "rhos_i", "rhos_j", "u_i", "u_j">>,
   delete |-> <<"FcL", "FcR", "dmLP", "dmRM", "dpLP", "dpRM", "rhos_i", "rhos_j",
              "u_i", "u_j">>]

CUpwAUSMPLUSUP2_TNE2_Buffers ==
  [new    |-> <<"FcL", "FcR", "dmLP", "dmRM", "dpLP", "dpRM", "daL", "daR",
              "rhos_i", "rhos_j", "u_i", "u_j", "Diff_U", "RoeU", "RoeV",
              "RoedPdU", "RoeEve", "Lambda", "Epsilon", "P_Tensor",
              "invP_Tensor", "P_Tensor[]", "invP_Tensor[]">>,
   delete |-> <<"FcL", "FcR", "dmLP", "dmRM", "dpLP", "dpRM", "rhos_i", "rhos_j",
              "u_i", "u_j", "Diff_U", "RoeU", "RoeV", "RoedPdU", "RoeEve",
              "Lambda", "Epsilon", "P_Tensor[]", "invP_Tensor[]", "P_Tensor",
              "invP_Tensor">>]

CUpwAUSMPWplus_TNE2_Buffers ==
  [new    |-> <<"FcL", "FcR", "dmLdL", "dmLdR", "dmRdL", "dmRdR", "dmLPdL",
              "dmLPdR", "dmRMdL", "dmRMdR", "dmbLPdL", "dmbLPdR", "dmbRMdL",
              "dmbRMdR", "dpLPdL", "dpLPdR", "dpRMdL", "dpRMdR", "dHnL",
              "dHnR", "daL", "daR", "rhos_i", "rhos_j", "u_i", "u_j", "dPdU_i",
              "dPdU_j">>,
   delete |-> <<"FcL", "FcR", "dmLdL", "dmLdR", "dmRdL", "dmRdR", "dmLPdL",
              "dmLPdR", "dmRMdL", "dmRMdR", "dmbLPdL", "dmbLPdR", "dmbRMdL",
              "dmbRMdR", "dpLPdL", "dpLPdR", "dpRMdL", "dpRMdR", "dHnL",
              "dHnR", "daL", "daR", "rhos_i", "rhos_j", "u_i", "u_j", "dPdU_i",
              "dPdU_j">>]

CCentLax_TNE2_Buffers ==
  [new    |-> <<"Diff_U", "MeanU", "MeanV", "MeanEve", "MeandPdU", "ProjFlux">>,
   delete |-> <<"Diff_U", "MeanU", "MeanV", "MeanEve", "MeandPdU", "ProjFlux">>]

CAvgGrad_TNE2_Buffers ==
  [new    |-> <<"PrimVar_i", "PrimVar_j", "Mean_PrimVar", "Mean_U", "Mean_dPdU",
              "Mean_dTdU", "Mean_dTvedU", "Mean_Eve", "Mean_Cvve", "Mean_GU",
              "Mean_GU[]", "Mean_Diffusion_Coeff", "Mean_GradPrimVar",
              "Mean_GradPrimVar[]">>,
   delete |-> <<"PrimVar_i", "PrimVar_j", "Mean_PrimVar", "Mean_Diffusion_Coeff",
              "Mean_U", "Mean_dPdU", "Mean_dTdU", "Mean_dTvedU", "Mean_Eve",
              "Mean_Cvve", "Mean_GU[]", "Mean_GU", "Mean_GradPrimVar[]",
              "Mean_GradPrimVar">>]

CAvgGradCorrected_TNE2_Buffers ==
  [new    |-> <<"PrimVar_i", "PrimVar_j", "Mean_PrimVar", "Mean_Eve",
              "Mean_Cvve", "Mean_Diffusion_Coeff", "Mean_GradPrimVar",
              "Mean_GradPrimVar[]", "Proj_Mean_GradPrimVar_Edge",
              "Edge_Vector">>,
   delete |-> <<"PrimVar_i", "PrimVar_j", "Mean_PrimVar", "Mean_Eve",
              "Mean_Cvve", "Mean_Diffusion_Coeff", "Mean_GradPrimVar[]",
              "Mean_GradPrimVar", "Proj_Mean_GradPrimVar_Edge", "Edge_Vector">>]

CSource_TNE2_Buffers ==
  [new    |-> <<"RxnConstantTable", "RxnConstantTable[]", "tau_sr", "tau_sr[]",
              "alphak", "betak", "A", "X", "Y", "estar", "evib", "Cvvs",
              "Cves", "Cvvsst", "tauP", "tauMW", "taus", "dkf", "dkb", "dRfok",
              "dRbok", "dYdr", "dYdr[]">>,
   delete |-> <<"RxnConstantTable[]", "RxnConstantTable", "dYdr[]", "dYdr",
              "tau_sr[]", "tau_sr", "A", "X", "Y", "estar", "evib", "Cvvs",
              "Cves", "Cvvsst", "tauP", "tauMW", "taus", "alphak", "betak",
              "dkf", "dkb", "dRfok", "dRbok">>]

BuffersOf(cls) ==
  CASE cls = "CUpwRoe_TNE2" -> CUpwRoe_TNE2_Buffers
    [] cls = "CUpwMSW_TNE2" -> CUpwMSW_TNE2_Buffers
    [] cls = "CUpwAUSM_TNE2" -> CUpwAUSM_TNE2_Buffers
    [] cls = "CUpwAUSMPLUSUP2_TNE2" -> CUpwAUSMPLUSUP2_TNE2_Buffers
    [] cls = "CUpwAUSMPWplus_TNE2" -> CUpwAUSMPWplus_TNE2_Buffers
    [] cls = "CCentLax_TNE2" -> CCentLax_TNE2_Buffers
    [] cls = "CAvgGrad_TNE2" -> CAvgGrad_TNE2_Buffers
    [] cls = "CAvgGradCorrected_TNE2" -> CAvgGradCorrected_TNE2_Buffers
    [] cls = "CSource_TNE2" -> CSource_TNE2_Buffers

Classes ==
  { "CUpwRoe_TNE2", "CUpwMSW_TNE2", "CUpwAUSM_TNE2", "CUpwAUSMPLUSUP2_TNE2",
    "CUpwAUSMPWplus_TNE2", "CCentLax_TNE2", "CAvgGrad_TNE2",
    "CAvgGradCorrected_TNE2", "CSource_TNE2" }

Range(s) == { s[k] : k \in DOMAIN s }

-----------------------------------------------------------------------------
(* Scheme objects: construction, calls, destruction                        *)

\* objects constructed one after the other whose buffers the heap may hold
MaxObjects == 2

\* what a read of an array entry that was never written may give: new
\* su2double[n] leaves the entries uninitialised, and the bits found there
\* may be those of a number or of a NaN
Garbage == {Zero, R(5), NaN}

\* the arrays of an object no kernel has run on
Fresh == [fresh |-> TRUE]

\* (nSpecies, nDim) of the objects built: the flux schemes on a two-species
\* mixture, the source terms on the three-species mixture of the reactions
LifeSizes(cls) == IF cls = "CSource_TNE2" THEN {<<3, 2>>} ELSE {<<2, 2>>}

\* c with the fields x added
With(c, x) == [f \in DOMAIN c \cup DOMAIN x |-> IF f \in DOMAIN x THEN x[f] ELSE c[f]]

\* the objects (by serial number) that own a buffer of the heap
Owners == { b[1] : b \in heap }

\* outside a call the caller's buffers are its own business: it fills them
\* before every call
NoCall ==
  /\ inp' = NoInp
  /\ prev' = NoPrev
  /\ val_residual' = NoBuf
  /\ val_source' = NoBuf
  /\ val_Jacobian_i' = NoBuf
  /\ val_Jacobian_j' = NoBuf
  /\ UNCHANGED proc

\* the constructor of cls: every array of its list is allocated; the flags are
\* read from the configuration
Construct ==
  /\ inst = NoInst
  /\ proc = Running
  /\ Cardinality(Owners) < MaxObjects
  /\ \E cls \in Classes, im \in BOOLEAN, ion \in BOOLEAN :
     \E sz \in LifeSizes(cls) :
       /\ ion => cls \in {"CAvgGrad_TNE2", "CAvgGradCorrected_TNE2"}
       /\ inst' = [cls |-> cls, serial |-> Cardinality(Owners) + 1,
                   nSpecies |-> sz[1], nDim |-> sz[2], implicit |-> im, ionization |-> ion]
       /\ heap' = heap \cup { <<Cardinality(Owners) + 1, n>> : n \in Range(BuffersOf(cls).new) }
       /\ scratch' = Fresh
  /\ kernel' = "constructor"
  /\ NoCall

\* the destructor: every array of its list is released
Destroy ==
  /\ inst # NoInst
  /\ proc = Running
  /\ heap' = heap \ { <<inst.serial, n>> : n \in Range(BuffersOf(inst.cls).delete) }
  /\ inst' = NoInst
  /\ scratch' = NoScratch
  /\ kernel' = "destructor"
  /\ NoCall

\* the caller's buffers on entry of a call: leftovers f
Buffers(nVar, f) ==
  [residual |-> ConstVec(nVar, f), source |-> ConstVec(nVar, Add(f, One)),
   Jacobian_i |-> ConstMat(nVar, f), Jacobian_j |-> ConstMat(nVar, Add(f, R(2)))]

\* a kernel returns, or ends the process: the buffers and the scratch arrays
\* as it leaves them; prev keeps the buffers it was entered with
Return(k, c, b, out) ==
  /\ kernel' = k
  /\ inp' = c
  /\ prev' = b
  /\ val_residual' = out.residual
  /\ val_source' = out.source
  /\ val_Jacobian_i' = out.Jacobian_i
  /\ val_Jacobian_j' = out.Jacobian_j
  /\ scratch' = out.scratch
  /\ proc' = IF "exit" \in DOMAIN out
               THEN [state |-> "exited", status |-> out.exit.status, cout |-> out.exit.cout]
               ELSE proc
  /\ UNCHANGED <<inst, heap>>

\* the faces handed to the flux schemes: the two cell states with their
\* pressure derivatives, the normal, and the flux Jacobians of the base class
Faces(nSpecies, nDim) ==
  { [nSpecies |-> nSpecies, nDim |-> nDim, Normal |-> Vec(n),
     U_i |-> si.U, V_i |-> si.V, U_j |-> sj.U, V_j |-> sj.V,
     dPdU_i |-> [k \in 0..(nVarOf(nSpecies, nDim) - 1) |-> Q(1, k + 2)],
     dPdU_j |-> [k \in 0..(nVarOf(nSpecies, nDim) - 1) |-> Q(1, k + 3)],
     ProjJac_i |-> [i \in 0..(nVarOf(nSpecies, nDim) - 1) |-> si.U],
     ProjJac_j |-> [i \in 0..(nVarOf(nSpecies, nDim) - 1) |-> sj.U],
     ProjJac |-> [i \in 0..(nVarOf(nSpecies, nDim) - 1) |->
                    [j \in 0..(nVarOf(nSpecies, nDim) - 1) |-> Mul(Half, Add(si.U[j], sj.U[j]))]]] :
      si \in { SetState(nSpecies, nDim, 1, 2, 1, 1, 1) },
      sj \in { SetState(nSpecies, nDim, 1, -1, 1, 1, 1), SetState(nSpecies, nDim, 2, 2, 1, 2, 2) },
      n \in AlignedNormals(nDim) }

\* what the solver hands to the viscous schemes besides the two states: the
\* transport coefficients, the gradients of the primitive variables, the
\* energies and enthalpies (CalcHs), the temperature derivatives, the points
ViscousData(nSpecies, nDim) ==
  [nPrimVarGrad |-> nPrimVarOf(nSpecies, nDim),
   Diffusion_Coeff_i |-> [s \in 0..(nSpecies - 1) |-> One],
   Diffusion_Coeff_j |-> [s \in 0..(nSpecies - 1) |-> R(2 * s + 1)],
   Laminar_Viscosity_i |-> One, Laminar_Viscosity_j |-> R(3),
   Thermal_Conductivity_i |-> R(2), Thermal_Conductivity_j |-> R(2),
   Thermal_Conductivity_ve_i |-> One, Thermal_Conductivity_ve_j |-> One,
   PrimVar_Grad_i |-> [k \in 0..(nPrimVarOf(nSpecies, nDim) - 1) |->
                        [d \in 0..(nDim - 1) |-> R(k + d)]],
   PrimVar_Grad_j |-> [k \in 0..(nPrimVarOf(nSpecies, nDim) - 1) |->
                        [d \in 0..(nDim - 1) |-> R(k - 2 * d)]],
   eve_i |-> [s \in 0..(nSpecies - 1) |-> R(s + 1)],
   eve_j |-> [s \in 0..(nSpecies - 1) |-> R(3)],
   Cvve_i |-> [s \in 0..(nSpecies - 1) |-> One],
   Cvve_j |-> [s \in 0..(nSpecies - 1) |-> R(s + 1)],
   hs |-> [s \in 0..(nSpecies - 1) |-> R(s + 2)],
   dTdU_i |-> [k \in 0..(nVarOf(nSpecies, nDim) - 1) |-> Q(1, k + 1)],
   dTdU_j |-> [k \in 0..(nVarOf(nSpecies, nDim) - 1) |-> Q(1, k + 2)],
   dTvedU_i |-> [k \in 0..(nVarOf(nSpecies, nDim) - 1) |-> R(k)],
   dTvedU_j |-> [k \in 0..(nVarOf(nSpecies, nDim) - 1) |-> R(1 - k)],
   Coord_i |-> [d \in 0..(nDim - 1) |-> Zero],
   Coord_j |-> [d \in 0..(nDim - 1) |-> IF d = 0 THEN R(3) ELSE IF d = 1 THEN R(4) ELSE Zero]]

\* the cells handed to the source terms: the reacting mixtures with the
\* state of the cell, its pressure and temperature derivatives, its height
\* y over the axis (one of ys) and the relaxation data of CalcEve, CalcCvve
\* and the relaxation-time formulas
Cells(nSpecies, nDim, ys) ==
  { With(With(ch, [V_i |-> SetState(nSpecies, nDim, 2, 2, 3, 1, 1).V,
                   U_i |-> [k \in 0..(nVarOf(nSpecies, nDim) - 1) |->
                             IF k < nSpecies THEN ch.U_i[k]
                             ELSE SetState(nSpecies, nDim, 2, 2, 3, 1, 1).U[k]]]),
         [dPdU_i |-> [k \in 0..(nVarOf(nSpecies, nDim) - 1) |-> Q(1, k + 2)],
          dTdU_i |-> [k \in 0..(nVarOf(nSpecies, nDim) - 1) |-> Q(1, k + 1)],
          Coord_i |-> Vec(<<R(1), R(y)>>),
          tau_sr |-> [s \in 0..(nSpecies - 1) |-> [r \in 0..(nSpecies - 1) |-> R(s + 1)]],
          tauP |-> [s \in 0..(nSpecies - 1) |-> One],
          estar |-> [s \in 0..(nSpecies - 1) |-> R(3)],
          Cvvsst |-> [s \in 0..(nSpecies - 1) |-> R(s + 1)],
          dtauPdT |-> [s \in 0..(nSpecies - 1) |-> R(2)],
          dtauPdrhos |-> [s \in 0..(nSpecies - 1) |-> R(4)],
          dlntaudT |-> [s \in 0..(nSpecies - 1) |-> R(2)]]) :
      ch \in { x \in ChemInputsOf(2) :
                 /\ x.implicit = inst.implicit
                 /\ x.Ms = RVec(<<2, 1, 3>>) /\ x.U_i[0] = R(1000) /\ x.eve_i[0] = One
                 /\ x.Volume = R(2) /\ x.kf[0] = One
                 /\ x.RxnMap[0][0][1] = 2 /\ x.RxnMap[1][0][0] = 1 },
      y \in ys }

\* what a flux scheme leaves: its residual, the Jacobians J and the scratch
\* arrays sc; it has no val_source
Output(b, residual, J, sc) ==
  [residual |-> residual, source |-> b.source,
   Jacobian_i |-> J.Jacobian_i, Jacobian_j |-> J.Jacobian_j, scratch |-> sc]

Roe_Output(c, b, out) ==
  Output(b, out.residual,
         Roe_Jacobians(c, FaceArea(c.Normal, c.nDim), out.Lambda, b.Jacobian_i, b.Jacobian_j),
         [Lambda |-> out.Lambda, Epsilon |-> out.Epsilon,
          Diss |-> out.Diss,
          outside |-> OutOfBounds(Roe_Access(c), nVarOf(c.nSpecies, c.nDim))])

AUSM_Output(c, b, out) ==
  Output(b, out.residual,
         AUSM_Jacobians(c, FaceUnitNormal(c.Normal, c.nDim), FaceArea(c.Normal, c.nDim),
                        c.V_i[A_INDEX(c.nSpecies, c.nDim)], c.V_j[A_INDEX(c.nSpecies, c.nDim)],
                        AUSM_Fc(c.nSpecies, c.nDim, c.U_i, c.V_i, c.V_i[A_INDEX(c.nSpecies, c.nDim)]),
                        AUSM_Fc(c.nSpecies, c.nDim, c.U_j, c.V_j, c.V_j[A_INDEX(c.nSpecies, c.nDim)]),
                        out.mL, out.mR, out.mF, b.Jacobian_i, b.Jacobian_j),
         [mL |-> out.mL, mR |-> out.mR, mF |-> out.mF, pF |-> out.pF,
          unwritten |-> UnwrittenReads(AUSM_Access(c), 1, {}),
          outside |-> OutOfBounds(AUSM_Access(c), nVarOf(c.nSpecies, c.nDim))])

AUSMPLUSUP2_Output(c, b, out) ==
  Output(b, out.residual,
         AUSM_Jacobians(c, FaceUnitNormal(c.Normal, c.nDim), FaceArea(c.Normal, c.nDim),
                        out.aF, out.aF,
                        AUSM_Fc(c.nSpecies, c.nDim, c.U_i, c.V_i, out.aF),
                        AUSM_Fc(c.nSpecies, c.nDim, c.U_j, c.V_j, out.aF),
                        out.mL, out.mR, out.mF, b.Jacobian_i, b.Jacobian_j),
         [mL |-> out.mL, mR |-> out.mR, mF |-> out.mF, pF |-> out.pF,
          unwritten |-> UnwrittenReads(AUSM_Access(c), 1, {}),
          outside |-> OutOfBounds(AUSM_Access(c), nVarOf(c.nSpecies, c.nDim))])

CentLax_Output(c, b, out) ==
  Output(b, out.residual,
         CentLax_Jacobians(c, Mul3(out.Epsilon_0, out.StretchingFactor, out.MeanLambda),
                           b.Jacobian_i, b.Jacobian_j),
         [Diss |-> out.Diss, MeanLambda |-> out.MeanLambda])

\* what the configuration and the mixture hand to every scheme
Config(nSpecies, nDim) ==
  [implicit |-> inst.implicit, ionization |-> inst.ionization,
   Ms |-> [s \in 0..(nSpecies - 1) |-> R(s + 1)], xi |-> [s \in 0..(nSpecies - 1) |-> R(2)],
   Ru |-> R(8), Minf |-> Half, Gamma |-> Q(7, 5)]

-----------------------------------------------------------------------------
(* CAvgGrad_TNE2 and CAvgGradCorrected_TNE2                                *)

\* PrimVar_i / PrimVar_j: the species densities turned into mass fractions
Visc_PrimVar(c, V) ==
  Vector([iVar \in 0..(nPrimVarOf(c.nSpecies, c.nDim) - 1) |->
    IF iVar < c.nSpecies THEN Div(V[iVar], V[RHO_INDEX(c.nSpecies, c.nDim)]) ELSE V[iVar]])

\* Mean_GradPrimVar: the mass-fraction gradients of the species rows, the
\* average of the two gradients on the other rows
Visc_MeanGrad(c) ==
  Vector([iVar \in 0..(c.nPrimVarGrad - 1) |-> [iDim \in 0..(c.nDim - 1) |->
    IF iVar < c.nSpecies
      THEN Mul(Half,
             Add(Mul(Div(One, c.V_i[RHO_INDEX(c.nSpecies, c.nDim)]),
                     Sub(c.PrimVar_Grad_i[iVar][iDim],
                         Mul(Visc_PrimVar(c, c.V_i)[iVar],
                             c.PrimVar_Grad_i[RHO_INDEX(c.nSpecies, c.nDim)][iDim]))),
                 Mul(Div(One, c.V_j[RHO_INDEX(c.nSpecies, c.nDim)]),
                     Sub(c.PrimVar_Grad_j[iVar][iDim],
                         Mul(Visc_PrimVar(c, c.V_j)[iVar],
                             c.PrimVar_Grad_j[RHO_INDEX(c.nSpecies, c.nDim)][iDim])))))
      ELSE Mul(Half, Add(c.PrimVar_Grad_i[iVar][iDim], c.PrimVar_Grad_j[iVar][iDim]))]])

\* variant: the correction is divided by the length of the edge
Visc_EdgeCorrection_ByLength(c, GV, Edge_Vector) ==
  Vector([iVar \in 0..(c.nPrimVarGrad - 1) |-> [iDim \in 0..(c.nDim - 1) |->
    Sub(GV[iVar][iDim],
        Div(Mul(Sub(VSum([d \in 0..(c.nDim - 1) |-> Mul(GV[iVar][d], Edge_Vector[d])], c.nDim),
                    Sub(Visc_PrimVar(c, c.V_j)[iVar], Visc_PrimVar(c, c.V_i)[iVar])),
                Edge_Vector[iDim]),
            Sqrt(Dot(Edge_Vector, Edge_Vector, c.nDim))))]])

\* CAvgGradCorrected_TNE2: the component of the mean gradient along the edge
\* is replaced by the difference of the two states over the edge
Visc_EdgeCorrection(c, GV, Edge_Vector) ==
  Vector([iVar \in 0..(c.nPrimVarGrad - 1) |-> [iDim \in 0..(c.nDim - 1) |->
    Sub(GV[iVar][iDim],
        Div(Mul(Sub(VSum([d \in 0..(c.nDim - 1) |-> Mul(GV[iVar][d], Edge_Vector[d])], c.nDim),
                    Sub(Visc_PrimVar(c, c.V_j)[iVar], Visc_PrimVar(c, c.V_i)[iVar])),
                Edge_Vector[iDim]),
            Dot(Edge_Vector, Edge_Vector, c.nDim)))]])

\* the mean state handed to GetViscousProjFlux and GetViscousProjJacs
Visc_Mean(c, GV) ==
  [V |-> Vector([iVar \in 0..(nPrimVarOf(c.nSpecies, c.nDim) - 1) |->
            Mul(Half, Add(Visc_PrimVar(c, c.V_i)[iVar], Visc_PrimVar(c, c.V_j)[iVar]))]),
   GV |-> GV,
   Eve |-> [s \in 0..(c.nSpecies - 1) |-> Mul(Half, Add(c.eve_i[s], c.eve_j[s]))],
   Cvve |-> [s \in 0..(c.nSpecies - 1) |-> Mul(Half, Add(c.Cvve_i[s], c.Cvve_j[s]))],
   Ds |-> [s \in 0..(c.nSpecies - 1) |->
             Mul(Half, Add(c.Diffusion_Coeff_i[s], c.Diffusion_Coeff_j[s]))],
   mu |-> Mul(Half, Add(c.Laminar_Viscosity_i, c.Laminar_Viscosity_j)),
   ktr |-> Mul(Half, Add(c.Thermal_Conductivity_i, c.Thermal_Conductivity_j)),
   kve |-> Mul(Half, Add(c.Thermal_Conductivity_ve_i, c.Thermal_Conductivity_ve_j))]

nHeavyOf(c) == IF c.ionization THEN c.nSpecies - 1 ELSE c.nSpecies

\* tau[iDim][jDim] = mu*(dv_j/dx_i + dv_i/dx_j), less 2/3 mu div(v) on the diagonal
Visc_tau(c, m, iDim, jDim) ==
  Sub(Add(Zero, Mul(m.mu, Add(m.GV[VEL_INDEX(c.nSpecies) + jDim][iDim],
                              m.GV[VEL_INDEX(c.nSpecies) + iDim][jDim]))),
      IF iDim = jDim
        THEN Mul3(Q(2, 3), m.mu,
                  VSum([d \in 0..(c.nDim - 1) |-> m.GV[VEL_INDEX(c.nSpecies) + d][d]], c.nDim))
        ELSE Zero)

\* variant: the drift Vector[iDim] is subtracted whole, not weighted with Y
Visc_SpeciesFlux_WholeDrift(c, m, iSpecies, iDim) ==
  Sub(Mul3(m.V[RHO_INDEX(c.nSpecies, c.nDim)], m.Ds[iSpecies], m.GV[RHOS_INDEX + iSpecies][iDim]),
      VSum([s \in 0..(nHeavyOf(c) - 1) |->
              Mul3(m.V[RHO_INDEX(c.nSpecies, c.nDim)], m.Ds[s], m.GV[RHOS_INDEX + s][iDim])],
           nHeavyOf(c)))

\* Flux_Tensor[iSpecies][iDim] of a heavy species: rho*Ds*dY/dx - Y*Vector[iDim]
Visc_SpeciesFlux(c, m, iSpecies, iDim) ==
  Sub(Mul3(m.V[RHO_INDEX(c.nSpecies, c.nDim)], m.Ds[iSpecies], m.GV[RHOS_INDEX + iSpecies][iDim]),
      Mul(m.V[RHOS_INDEX + iSpecies],
          VSum([s \in 0..(nHeavyOf(c) - 1) |->
                  Mul3(m.V[RHO_INDEX(c.nSpecies, c.nDim)], m.Ds[s], m.GV[RHOS_INDEX + s][iDim])],
               nHeavyOf(c))))

\* Flux_Tensor[iVar][iDim] when the loop over iDim has run to its end
Visc_FluxTensor(c, m, iVar, iDim) ==
  IF iVar < c.nSpecies
    THEN IF iVar < nHeavyOf(c) THEN Visc_SpeciesFlux(c, m, iVar, iDim) ELSE Zero
  ELSE IF iVar < c.nSpecies + c.nDim THEN Visc_tau(c, m, iDim, iVar - c.nSpecies)
  ELSE IF iVar = c.nSpecies + c.nDim
    THEN Add(Add(Add(Zero,
           VSum([jDim \in 0..(c.nDim - 1) |->
                   Mul(Visc_tau(c, m, iDim, jDim), m.V[VEL_INDEX(c.nSpecies) + jDim])], c.nDim)),
           VSum([s \in 0..(nHeavyOf(c) - 1) |-> Mul(Visc_SpeciesFlux(c, m, s, iDim), c.hs[s])],
                nHeavyOf(c))),
           Add(Mul(m.ktr, m.GV[T_INDEX(c.nSpecies)][iDim]),
               Mul(m.kve, m.GV[TVE_INDEX(c.nSpecies)][iDim])))
  ELSE Add(Add(Zero,
         VSum([s \in 0..(nHeavyOf(c) - 1) |-> Mul(Visc_SpeciesFlux(c, m, s, iDim), m.Eve[s])],
              nHeavyOf(c))),
         Mul(m.kve, m.GV[TVE_INDEX(c.nSpecies)][iDim]))

\* the ionized path is reached in the first turn of the loop over iDim
Visc_Exits_Never(c) == FALSE

Visc_Exits(c) == c.ionization /\ c.nDim >= 1

\* the diagnostic of the ionized path
ViscDiagnostic == "GetViscProjFlux -- NEED TO IMPLEMENT IONIZED FUNCTIONALITY!!!"

\* GetViscousProjFlux: Proj_Flux_Tensor and Flux_Tensor are zeroed; in the
\* first turn of the loop over iDim, after the species rows of that column,
\* the ionized path prints the diagnostic and exits with status 1; otherwise
\* the tensor is filled and projected on val_normal
GetViscousProjFlux(c, m, val_normal) ==
  IF Visc_Exits(c)
    THEN [exit |-> [status |-> 1, cout |-> ViscDiagnostic],
          Flux_Tensor |-> Vector([iVar \in 0..(nVarOf(c.nSpecies, c.nDim) - 1) |->
                            [iDim \in 0..(c.nDim - 1) |->
                               IF iVar < nHeavyOf(c) /\ iDim = 0
                                 THEN Visc_SpeciesFlux(c, m, iVar, iDim) ELSE Zero]]),
          Proj_Flux_Tensor |-> ZeroVec(nVarOf(c.nSpecies, c.nDim))]
    ELSE [Flux_Tensor |-> Vector([iVar \in 0..(nVarOf(c.nSpecies, c.nDim) - 1) |->
                            [iDim \in 0..(c.nDim - 1) |-> Visc_FluxTensor(c, m, iVar, iDim)]]),
          Proj_Flux_Tensor |-> Vector([iVar \in 0..(nVarOf(c.nSpecies, c.nDim) - 1) |->
                            Add(Zero,
                                VSum([iDim \in 0..(c.nDim - 1) |->
                                        Mul(Visc_FluxTensor(c, m, iVar, iDim), val_normal[iDim])],
                                     c.nDim))])]

\* the geometry and diffusion sums of GetViscousProjJacs
Visc_JacGeometry(c, m, dij, val_normal) ==
  [dij |-> dij,
   theta |-> Dot(val_normal, val_normal, c.nDim),
   rho_i |-> c.V_i[RHO_INDEX(c.nSpecies, c.nDim)],
   rho_j |-> c.V_j[RHO_INDEX(c.nSpecies, c.nDim)],
   Ys_i |-> Visc_PrimVar(c, c.V_i),
   Ys_j |-> Visc_PrimVar(c, c.V_j),
   sumY_i |-> VSum([s \in 0..(nHeavyOf(c) - 1) |->
                Mul(Div(Mul(m.Ds[s], Dot(val_normal, val_normal, c.nDim)), dij),
                    Visc_PrimVar(c, c.V_i)[s])], nHeavyOf(c)),
   sumY_j |-> VSum([s \in 0..(nHeavyOf(c) - 1) |->
                Mul(Div(Mul(m.Ds[s], Dot(val_normal, val_normal, c.nDim)), dij),
                    Visc_PrimVar(c, c.V_j)[s])], nHeavyOf(c)),
   sumY |-> VSum([s \in 0..(nHeavyOf(c) - 1) |->
                Mul(Div(Mul(m.Ds[s], Dot(val_normal, val_normal, c.nDim)), dij),
                    Sub(Visc_PrimVar(c, c.V_j)[s], Visc_PrimVar(c, c.V_i)[s]))], nHeavyOf(c))]

\* dJdr_j[iSpecies][jSpecies]
Visc_dJdr_j(m, g, iSpecies, jSpecies) ==
  Add(Add(Add(Zero,
    Mul(Half, Mul(Div(Mul(m.Ds[iSpecies], g.theta), g.dij),
                  Add(Div(Mul(g.Ys_j[iSpecies], g.rho_i), g.rho_j), g.Ys_i[iSpecies])))),
    Sub(Add(Mul3(Quarter, Sub(g.Ys_i[iSpecies], Mul(Div(g.rho_i, g.rho_j), g.Ys_j[iSpecies])),
                 g.sumY),
            Div(Mul(Mul4(Quarter, Add(g.Ys_i[iSpecies], g.Ys_j[iSpecies]),
                         Add(g.rho_i, g.rho_j), m.Ds[jSpecies]), g.theta),
                Mul(g.dij, g.rho_j))),
        Div(Mul4(Quarter, Add(g.Ys_i[iSpecies], g.Ys_j[iSpecies]), Add(g.rho_i, g.rho_j),
                 g.sumY_j), g.rho_j))),
    IF iSpecies = jSpecies
      THEN Add(Mul(Div(Mul3(R(-1), Half, Mul(m.Ds[iSpecies], g.theta)), g.dij),
                   Add(One, Div(g.rho_i, g.rho_j))),
               Mul3(Quarter, Add(One, Div(g.rho_i, g.rho_j)), g.sumY))
      ELSE Zero)

\* dJdr_i[iSpecies][jSpecies]
Visc_dJdr_i(m, g, iSpecies, jSpecies) ==
  Add(Add(Add(Zero,
    Mul3(R(-1), Half, Mul(Div(Mul(m.Ds[iSpecies], g.theta), g.dij),
                  Add(g.Ys_j[iSpecies], Div(Mul(g.Ys_i[iSpecies], g.rho_j), g.rho_i))))),
    Add(Sub(Mul3(Quarter, Add(Mul(Div(Neg(g.rho_j), g.rho_i), g.Ys_i[iSpecies]), g.Ys_j[iSpecies]),
                 g.sumY),
            Div(Mul(Mul4(Quarter, Add(g.Ys_i[iSpecies], g.Ys_j[iSpecies]),
                         Add(g.rho_i, g.rho_j), m.Ds[jSpecies]), g.theta),
                Mul(g.dij, g.rho_i))),
        Div(Mul4(Quarter, Add(g.Ys_i[iSpecies], g.Ys_j[iSpecies]), Add(g.rho_i, g.rho_j),
                 g.sumY_i), g.rho_i))),
    IF iSpecies = jSpecies
      THEN Add(Mul(Div(Mul(Half, Mul(m.Ds[iSpecies], g.theta)), g.dij),
                   Add(One, Div(g.rho_j, g.rho_i))),
               Mul3(Quarter, Add(One, Div(g.rho_j, g.rho_i)), g.sumY))
      ELSE Zero)

\* the transformation matrix dVdU of one side
Visc_dVdU(c, V, dTdU, dTvedU) ==
  Vector([iVar \in 0..(nVarOf(c.nSpecies, c.nDim) - 1) |->
    [jVar \in 0..(nVarOf(c.nSpecies, c.nDim) - 1) |->
      IF iVar < c.nSpecies THEN (IF iVar = jVar THEN One ELSE Zero)
      ELSE IF iVar < c.nSpecies + c.nDim
        THEN IF jVar < c.nSpecies
               THEN Div(Neg(V[VEL_INDEX(c.nSpecies) + iVar - c.nSpecies]),
                        V[RHO_INDEX(c.nSpecies, c.nDim)])
             ELSE IF jVar = iVar THEN Div(One, V[RHO_INDEX(c.nSpecies, c.nDim)])
             ELSE Zero
      ELSE IF iVar = c.nSpecies + c.nDim THEN dTdU[jVar]
      ELSE dTvedU[jVar]]])

\* the entries of dFdVj set from the geometry (nDim == 2); dFdVi starts as
\* their negative
Visc_dFdV_Geometric(c, m, g, val_normal, val_dS, iVar, jVar) ==
  IF iVar = c.nSpecies /\ jVar = c.nSpecies
    THEN Mul(Div(Mul(m.mu, Add(g.theta, Div(Mul(val_normal[0], val_normal[0]), R(3)))), g.dij), val_dS)
  ELSE IF (iVar = c.nSpecies /\ jVar = c.nSpecies + 1) \/ (iVar = c.nSpecies + 1 /\ jVar = c.nSpecies)
    THEN Mul(Div(Mul(m.mu, Div(Mul(val_normal[0], val_normal[1]), R(3))), g.dij), val_dS)
  ELSE IF iVar = c.nSpecies + 1 /\ jVar = c.nSpecies + 1
    THEN Mul(Div(Mul(m.mu, Add(g.theta, Div(Mul(val_normal[1], val_normal[1]), R(3)))), g.dij), val_dS)
  ELSE IF iVar = c.nSpecies + 2 /\ jVar = c.nSpecies
    THEN Mul(Mul(Div(m.mu, g.dij),
                 Add(Mul(Add(g.theta, Div(Mul(val_normal[0], val_normal[0]), R(3))),
                         m.V[VEL_INDEX(c.nSpecies)]),
                     Mul(Div(Mul(val_normal[0], val_normal[1]), R(3)),
                         m.V[VEL_INDEX(c.nSpecies) + 1]))), val_dS)
  ELSE IF iVar = c.nSpecies + 2 /\ jVar = c.nSpecies + 1
    THEN Mul(Mul(Div(m.mu, g.dij),
                 Add(Mul(Div(Mul(val_normal[0], val_normal[1]), R(3)),
                         m.V[VEL_INDEX(c.nSpecies)]),
                     Mul(Add(g.theta, Div(Mul(val_normal[1], val_normal[1]), R(3))),
                         m.V[VEL_INDEX(c.nSpecies) + 1]))), val_dS)
  ELSE IF iVar = c.nSpecies + 2 /\ jVar = c.nSpecies + 2
    THEN Mul(Div(Mul(m.ktr, g.theta), g.dij), val_dS)
  ELSE IF iVar >= c.nSpecies + 2 /\ jVar = c.nSpecies + 3
    THEN Mul(Div(Mul(m.kve, g.theta), g.dij), val_dS)
  ELSE Zero

\* the terms added to dFdVi and dFdVj alike
Visc_dFdV_Common(c, m, val_Fv, iVar, jVar) ==
  IF iVar = c.nSpecies + 2 /\ jVar \in {c.nSpecies, c.nSpecies + 1}
    THEN Mul(Half, val_Fv[jVar])
  ELSE IF iVar = c.nSpecies + 2 /\ jVar = c.nSpecies + 2
    THEN VSum([s \in 0..(c.nSpecies - 1) |->
                 Mul3(Half, val_Fv[s],
                      Add(Div(c.Ru, c.Ms[s]),
                          Div(Mul(Add(Q(3, 2), Div(c.xi[s], R(2))), c.Ru), c.Ms[s])))],
              c.nSpecies)
  ELSE IF iVar >= c.nSpecies + 2 /\ jVar = c.nSpecies + 3
    THEN VSum([s \in 0..(c.nSpecies - 1) |-> Mul3(Half, val_Fv[s], m.Cvve[s])], c.nSpecies)
  ELSE Zero

\* the terms of one side: dJdr is dJdr_i or dJdr_j, tabulated
Visc_dFdV_Unique(c, m, dJdr, val_dS, iVar, jVar) ==
  IF jVar >= c.nSpecies THEN Zero
  ELSE IF iVar < c.nSpecies THEN Mul(Neg(dJdr[iVar][jVar]), val_dS)
  ELSE IF iVar = c.nSpecies + 2
    THEN VSum([s \in 0..(c.nSpecies - 1) |-> Mul3(Neg(dJdr[s][jVar]), c.hs[s], val_dS)],
              c.nSpecies)
  ELSE IF iVar = c.nSpecies + 3
    THEN VSum([s \in 0..(c.nSpecies - 1) |-> Mul3(Neg(dJdr[s][jVar]), m.Eve[s], val_dS)],
              c.nSpecies)
  ELSE Zero

\* val_Jac = dFdV x dVdU, accumulated from zero
Visc_Product(c, dFdV, dVdU) ==
  Vector([iVar \in 0..(nVarOf(c.nSpecies, c.nDim) - 1) |->
    [jVar \in 0..(nVarOf(c.nSpecies, c.nDim) - 1) |->
      Add(Zero, VSum([kVar \in 0..(nVarOf(c.nSpecies, c.nDim) - 1) |->
                        Mul(dFdV[iVar][kVar], dVdU[kVar][jVar])],
                     nVarOf(c.nSpecies, c.nDim)))]])

\* GetViscousProjJacs for nDim == 2 (the sizes of the objects built here)
GetViscousProjJacs(c, m, g, val_normal, val_dS, val_Fv) ==
  [Jacobian_i |->
     Visc_Product(c,
       Vector([iVar \in 0..(nVarOf(c.nSpecies, c.nDim) - 1) |->
         [jVar \in 0..(nVarOf(c.nSpecies, c.nDim) - 1) |->
           Add(Add(Neg(Visc_dFdV_Geometric(c, m, g, val_normal, val_dS, iVar, jVar)),
                   Visc_dFdV_Common(c, m, val_Fv, iVar, jVar)),
               Visc_dFdV_Unique(c, m,
                 Vector([i \in 0..(c.nSpecies - 1) |-> [j \in 0..(c.nSpecies - 1) |->
                           Visc_dJdr_i(m, g, i, j)]]),
                 val_dS, iVar, jVar))]]),
       Visc_dVdU(c, c.V_i, c.dTdU_i, c.dTvedU_i)),
   Jacobian_j |->
     Visc_Product(c,
       Vector([iVar \in 0..(nVarOf(c.nSpecies, c.nDim) - 1) |->
         [jVar \in 0..(nVarOf(c.nSpecies, c.nDim) - 1) |->
           Add(Add(Visc_dFdV_Geometric(c, m, g, val_normal, val_dS, iVar, jVar),
                   Visc_dFdV_Common(c, m, val_Fv, iVar, jVar)),
               Visc_dFdV_Unique(c, m,
                 Vector([i \in 0..(c.nSpecies - 1) |-> [j \in 0..(c.nSpecies - 1) |->
                           Visc_dJdr_j(m, g, i, j)]]),
                 val_dS, iVar, jVar))]]),
       Visc_dVdU(c, c.V_j, c.dTdU_j, c.dTvedU_j))]

\* the end of ComputeResidual: nothing on the exit path; otherwise
\* val_residual = Proj_Flux_Tensor and, implicit, the two Jacobians
Visc_Update(c, b, m, flux, Area, UnitNormal) ==
  IF "exit" \in DOMAIN flux
    THEN [residual |-> b.residual, source |-> b.source,
          Jacobian_i |-> b.Jacobian_i, Jacobian_j |-> b.Jacobian_j,
          scratch |-> [Proj_Flux_Tensor |-> flux.Proj_Flux_Tensor,
                       Flux_Tensor |-> flux.Flux_Tensor, Mean_GradPrimVar |-> m.GV],
          exit |-> flux.exit]
    ELSE Output(b, Store(b.residual, flux.Proj_Flux_Tensor),
           IF c.implicit
             THEN GetViscousProjJacs(c, m,
                    Visc_JacGeometry(c, m,
                      Sqrt(VSum([d \in 0..(c.nDim - 1) |->
                                   Mul(Sub(c.Coord_j[d], c.Coord_i[d]),
                                       Sub(c.Coord_j[d], c.Coord_i[d]))], c.nDim)),
                      UnitNormal),
                    UnitNormal, Area, flux.Proj_Flux_Tensor)
             ELSE [Jacobian_i |-> b.Jacobian_i, Jacobian_j |-> b.Jacobian_j],
           [Proj_Flux_Tensor |-> flux.Proj_Flux_Tensor, Flux_Tensor |-> flux.Flux_Tensor,
            Mean_GradPrimVar |-> m.GV])

Visc_Flux(c, b, m) ==
  Visc_Update(c, b, m, GetViscousProjFlux(c, m, c.Normal),
              FaceArea(c.Normal, c.nDim), FaceUnitNormal(c.Normal, c.nDim))

CAvgGrad_ComputeResidual(c, b) == Visc_Flux(c, b, Visc_Mean(c, Visc_MeanGrad(c)))

CAvgGradCorrected_ComputeResidual(c, b) ==
  Visc_Flux(c, b,
    Visc_Mean(c, Visc_EdgeCorrection(c, Visc_MeanGrad(c),
                   [d \in 0..(c.nDim - 1) |-> Sub(c.Coord_j[d], c.Coord_i[d])])))

-----------------------------------------------------------------------------
(* CSource_TNE2::ComputeVibRelaxation and ComputeAxisymmetric              *)

\* the mole fractions X[s] = (rho_s/Ms[s])/conc
Vib_X(c) ==
  Vector([r \in 0..(c.nSpecies - 1) |->
    Div(Div(c.V_i[RHOS_INDEX + r], c.Ms[r]),
        VSum([q \in 0..(c.nSpecies - 1) |-> Div(c.V_i[RHOS_INDEX + q], c.Ms[q])], c.nSpecies))])

\* the relaxation times: num and denom of the Millikan-White time tauMW of
\* each species from the pair times tau_sr, and taus = tauMW + tauP.  The pair
\* times and the Park times are exponentials and roots of the state; they
\* come as c.tau_sr and c.tauP
Vib_Times(c, X) ==
  [num |-> VSum(X, c.nSpecies),
   denom |-> Vector([s \in 0..(c.nSpecies - 1) |->
                VSum([r \in 0..(c.nSpecies - 1) |-> Div(X[r], c.tau_sr[s][r])], c.nSpecies)]),
   taus |-> Vector([s \in 0..(c.nSpecies - 1) |->
               Add(Div(VSum(X, c.nSpecies),
                       VSum([r \in 0..(c.nSpecies - 1) |-> Div(X[r], c.tau_sr[s][r])],
                            c.nSpecies)),
                   c.tauP[s])])]

\* rhos*(estar - eve)/taus^2*Volume, the factor of the relaxation-time terms
Vib_dRdtau(c, t, s) ==
  Mul(Div(Mul(c.V_i[RHOS_INDEX + s], Sub(c.estar[s], c.eve_i[s])), Sq(t.taus[s])), c.Volume)

\* val_Jacobian_i[nEv][jVar], from zero: the energy derivatives, the source
\* over rhos, the Park-time terms and the Millikan-White terms (which the code
\* adds to the column of the species for every iVar)
Vib_JacobianRow(c, t, jVar) ==
  Sub(Sub(Sub(Add(Add(Zero,
    VSum([s \in 0..(c.nSpecies - 1) |->
            Mul3(Div(c.V_i[RHOS_INDEX + s], t.taus[s]),
                 Sub(Mul(c.Cvvsst[s], c.dTdU_i[jVar]), Mul(c.Cvve_i[s], c.dTvedU_i[jVar])),
                 c.Volume)], c.nSpecies)),
    IF jVar < c.nSpecies
      THEN Mul(Div(Sub(c.estar[jVar], c.eve_i[jVar]), t.taus[jVar]), c.Volume)
      ELSE Zero),
    VSum([s \in 0..(c.nSpecies - 1) |->
            Mul3(Vib_dRdtau(c, t, s), c.dtauPdT[s], c.dTdU_i[jVar])], c.nSpecies)),
    IF jVar < c.nSpecies
      THEN Mul(Vib_dRdtau(c, t, jVar), Div(R(-1), c.dtauPdrhos[jVar]))
      ELSE Zero),
    IF jVar < c.nSpecies
      THEN VSum([r \in 0..(c.nSpecies - 1) |->
             VSum([iVar \in 0..(nVarOf(c.nSpecies, c.nDim) - 1) |->
               Add(Mul4(Vib_dRdtau(c, t, jVar),
                        Div(Mul(Div(t.num, Sq(t.denom[jVar])), c.Ms[r]), c.tau_sr[jVar][r]),
                        Div(Neg(c.tau_sr[jVar][r]), c.V_i[P_INDEX(c.nSpecies, c.nDim)]),
                        c.dPdU_i[iVar]),
                   Mul4(Vib_dRdtau(c, t, jVar),
                        Div(Mul(Div(t.num, Sq(t.denom[jVar])), c.Ms[r]), c.tau_sr[jVar][r]),
                        Mul(Neg(c.tau_sr[jVar][r]), c.dlntaudT[jVar]),
                        c.dTdU_i[iVar]))],
               nVarOf(c.nSpecies, c.nDim))], c.nSpecies)
      ELSE Zero)

\* the residual is zeroed and its row nEv takes the sum of the species'
\* relaxation; val_source takes that residual over the volume; implicit, the
\* Jacobian is zeroed and its row nEv filled
Vib_Relax(c, b, t, Qtv) ==
  [residual |-> Accumulate(Store(b.residual, ZeroVec(nVarOf(c.nSpecies, c.nDim))),
                           Row(c.nSpecies + c.nDim + 1, Qtv)),
   source |-> Accumulate(b.source,
                [iVar \in 0..(nVarOf(c.nSpecies, c.nDim) - 1) |->
                   Div(IF iVar = c.nSpecies + c.nDim + 1 THEN Add(Zero, Qtv) ELSE Zero, c.Volume)]),
   Jacobian_i |->
     IF ~c.implicit THEN b.Jacobian_i
     ELSE Vector([iVar \in 0..(nVarOf(c.nSpecies, c.nDim) - 1) |->
            [jVar \in 0..(nVarOf(c.nSpecies, c.nDim) - 1) |->
               IF iVar = c.nSpecies + c.nDim + 1 THEN Vib_JacobianRow(c, t, jVar) ELSE Zero]]),
   Jacobian_j |-> b.Jacobian_j,
   scratch |-> [taus |-> t.taus, estar |-> c.estar]]

Vib_Source(c, b, t) ==
  Vib_Relax(c, b, t,
    VSum([s \in 0..(c.nSpecies - 1) |->
            Mul(Div(Mul(c.V_i[RHOS_INDEX + s], Sub(c.estar[s], c.eve_i[s])), t.taus[s]),
                c.Volume)], c.nSpecies))

CSource_ComputeVibRelaxation(c, b) == Vib_Source(c, b, Vib_Times(c, Vib_X(c)))

\* the rows 0..nSpecies+3 of the axisymmetric residual
Axi_Residual(c, yinv, rhov, rho) ==
  [iVar \in 0..(c.nSpecies + 3) |->
    IF iVar < c.nSpecies
      THEN Mul4(yinv, rhov, Div(c.V_i[RHOS_INDEX + iVar], rho), c.Volume)
    ELSE IF iVar = c.nSpecies THEN Mul(Div(Mul3(yinv, rhov, c.U_i[c.nSpecies]), rho), c.Volume)
    ELSE IF iVar = c.nSpecies + 1
      THEN Mul(Div(Mul3(yinv, rhov, c.U_i[c.nSpecies + 1]), rho), c.Volume)
    ELSE IF iVar = c.nSpecies + 2
      THEN Mul4(yinv, rhov, c.V_i[H_INDEX(c.nSpecies, c.nDim)], c.Volume)
    ELSE Mul(Div(Mul3(yinv, rhov, c.U_i[c.nSpecies + c.nDim + 1]), rho), c.Volume)]

\* val_Jacobian[iVar][jVar] before the scaling by yinv*Volume; the species
\* block is built from Ys, an array no statement of CSource_TNE2 writes
Axi_JacobianEntry(c, rho, rhou, rhov, rhoEve, H, Ys, iVar, jVar) ==
  IF iVar < c.nSpecies
    THEN IF jVar < c.nSpecies
           THEN Mul(Add(Add(Zero, Mul(Div(R(-1), rho), Ys[iVar])),
                        IF iVar = jVar THEN Div(One, rho) ELSE Zero), rhov)
         ELSE IF jVar = c.nSpecies + 1 THEN Div(c.V_i[RHOS_INDEX + iVar], rho)
         ELSE Zero
  ELSE IF iVar = c.nSpecies
    THEN IF jVar < c.nSpecies THEN Div(Mul(Neg(rhou), rhov), Mul(rho, rho))
         ELSE IF jVar = c.nSpecies THEN Div(rhov, rho)
         ELSE IF jVar = c.nSpecies + 1 THEN Div(rhou, rho)
         ELSE Zero
  ELSE IF iVar = c.nSpecies + 1
    THEN IF jVar < c.nSpecies THEN Div(Mul(Neg(rhov), rhov), Mul(rho, rho))
         ELSE IF jVar = c.nSpecies + 1 THEN Div(Mul(R(2), rhov), rho)
         ELSE Zero
  ELSE IF iVar = c.nSpecies + c.nDim
    THEN IF jVar < c.nSpecies
           THEN Add(Div(Mul(Neg(H), rhov), rho), Div(Mul(c.dPdU_i[jVar], rhov), rho))
         ELSE IF jVar = c.nSpecies THEN Div(Mul(c.dPdU_i[c.nSpecies], rhov), rho)
         ELSE IF jVar = c.nSpecies + 1
           THEN Add(H, Div(Mul(c.dPdU_i[c.nSpecies + 1], rhov), rho))
         ELSE IF jVar = c.nSpecies + c.nDim
           THEN Div(Mul(Add(One, c.dPdU_i[c.nSpecies + c.nDim]), rhov), rho)
         ELSE IF jVar = c.nSpecies + c.nDim + 1
           THEN Div(Mul(c.dPdU_i[c.nSpecies + c.nDim + 1], rhov), rho)
         ELSE Zero
  ELSE IF iVar = c.nSpecies + c.nDim + 1
    THEN IF jVar < c.nSpecies THEN Div(Mul(Neg(rhoEve), rhov), Mul(rho, rho))
         ELSE IF jVar = c.nSpecies + 1 THEN Div(rhoEve, rho)
         ELSE IF jVar = c.nSpecies + c.nDim + 1 THEN Div(rhov, rho)
         ELSE Zero
  ELSE Zero

\* the residual rows, val_source += val_residual/Volume on every row, and,
\* implicit, the Jacobian scaled by yinv*Volume
Axi_Source(c, b, yinv, residual) ==
  [residual |-> residual,
   source |-> Accumulate(b.source,
                [iVar \in 0..(nVarOf(c.nSpecies, c.nDim) - 1) |-> Div(residual[iVar], c.Volume)]),
   Jacobian_i |->
     IF ~c.implicit THEN b.Jacobian_i
     ELSE Vector([iVar \in 0..(nVarOf(c.nSpecies, c.nDim) - 1) |->
            [jVar \in 0..(nVarOf(c.nSpecies, c.nDim) - 1) |->
               Mul(Axi_JacobianEntry(c, c.V_i[RHO_INDEX(c.nSpecies, c.nDim)], c.U_i[c.nSpecies],
                                     c.U_i[c.nSpecies + 1], c.U_i[c.nSpecies + c.nDim + 1],
                                     c.V_i[H_INDEX(c.nSpecies, c.nDim)], c.uninit, iVar, jVar),
                   Mul(yinv, c.Volume))]]),
   Jacobian_j |-> b.Jacobian_j,
   scratch |-> [yinv |-> yinv]]

\* yinv = 1/y off the axis, 0 on it
Axi_yinv(c) == IF c.Coord_i[1] # Zero THEN Div(One, c.Coord_i[1]) ELSE Zero

CSource_ComputeAxisymmetric(c, b) ==
  Axi_Source(c, b, Axi_yinv(c),
    Store(b.residual,
          Axi_Residual(c, Axi_yinv(c), c.U_i[c.nSpecies + 1], c.V_i[RHO_INDEX(c.nSpecies, c.nDim)])))

\* ComputeChemistry with the caller's buffers b
Chem_Output(c, b, out) ==
  [residual |-> out.residual, source |-> out.source, Jacobian_i |-> out.Jacobian_i,
   Jacobian_j |-> b.Jacobian_j, scratch |-> [rxn |-> out.rxn]]


-----------------------------------------------------------------------------
(* Several threads, each running CUpwMSW_TNE2::ComputeResidual            *)

MaxThreads == 2

Threads == 1..MaxThreads

\* variant: all threads call into the one instance
InstanceOf_Shared(t) == 1

\* the scheme instance whose scratch arrays thread t's call mutates: its own
InstanceOf(t) == t

\* the edges the threads work on: two faces, each with the eigenvector
\* matrices GetPMatrix and GetPMatrix_inv return for its two sides
ThreadEdges(implicit) ==
  { With(c, [implicit |-> implicit, ionization |-> FALSE,
             eb_i |-> eb, eb_j |-> eb]) :
      c \in { f \in Faces(2, 2) : f.Normal[0] = R(2) /\ f.V_j = SetState(2, 2, 2, 2, 1, 2, 2).V },
      eb \in { e \in EigenBases(nVarOf(2, 2)) : e.P_Tensor[0][nVarOf(2, 2) - 1] = One } }
  \cup
  { With(c, [implicit |-> implicit, ionization |-> FALSE,
             eb_i |-> eb, eb_j |-> eb]) :
      c \in { f \in Faces(2, 2) : f.Normal[0] = R(-1) /\ f.V_j = SetState(2, 2, 2, 2, 1, 2, 2).V },
      eb \in { e \in EigenBases(nVarOf(2, 2)) : e.P_Tensor[0][nVarOf(2, 2) - 1] = Zero } }

\* the scratch arrays of one instance after construction
MSW_Scratch(nSpecies, nDim) ==
  [Ust_i |-> ZeroVec(nVarOf(nSpecies, nDim)), Ust_j |-> ZeroVec(nVarOf(nSpecies, nDim)),
   Vst_i |-> ZeroVec(nPrimVarOf(nSpecies, nDim)), Vst_j |-> ZeroVec(nPrimVarOf(nSpecies, nDim)),
   Lambda_i |-> ZeroVec(nVarOf(nSpecies, nDim)), Lambda_j |-> ZeroVec(nVarOf(nSpecies, nDim)),
   P_Tensor |-> ZeroMat(nVarOf(nSpecies, nDim)), invP_Tensor |-> ZeroMat(nVarOf(nSpecies, nDim)),
   Fc_i |-> ZeroVec(nVarOf(nSpecies, nDim)), Fc_j |-> ZeroVec(nVarOf(nSpecies, nDim))]

\* Fc_i, Fc_j zeroed; Ust, Vst of the two sides weighted with w
MSW_StarStates(c, sc, w) ==
  With(sc,
    [Fc_i |-> ZeroVec(nVarOf(c.nSpecies, c.nDim)), Fc_j |-> ZeroVec(nVarOf(c.nSpecies, c.nDim)),
     Ust_i |-> [k \in DOMAIN c.U_i |-> MSW_Star(w, c.U_i[k], c.U_j[k])],
     Ust_j |-> [k \in DOMAIN c.U_i |-> MSW_Star(w, c.U_j[k], c.U_i[k])],
     Vst_i |-> [k \in DOMAIN c.V_i |-> MSW_Star(w, c.V_i[k], c.V_j[k])],
     Vst_j |-> [k \in DOMAIN c.V_i |-> MSW_Star(w, c.V_j[k], c.V_i[k])]])

\* Lambda_i and the eigenvector matrices of side i written to the instance
MSW_Eigen_i(c, sc, UnitNormal, w) ==
  With(sc,
    [Lambda_i |-> MSW_Lambda(c, MSW_Star(w, ProjVel(c.nSpecies, c.nDim, c.V_i, UnitNormal),
                                            ProjVel(c.nSpecies, c.nDim, c.V_j, UnitNormal)),
                             sc.Vst_i[A_INDEX(c.nSpecies, c.nDim)], 1),
     P_Tensor |-> c.eb_i.P_Tensor, invP_Tensor |-> c.eb_i.invP_Tensor])

\* Lambda_j and the eigenvector matrices of side j written to the instance
MSW_Eigen_j(c, sc, UnitNormal, w) ==
  With(sc,
    [Lambda_j |-> MSW_Lambda(c, MSW_Star(w, ProjVel(c.nSpecies, c.nDim, c.V_j, UnitNormal),
                                            ProjVel(c.nSpecies, c.nDim, c.V_i, UnitNormal)),
                             sc.Vst_j[A_INDEX(c.nSpecies, c.nDim)], -1),
     P_Tensor |-> c.eb_j.P_Tensor, invP_Tensor |-> c.eb_j.invP_Tensor])

\* the eigenvector matrices the instance holds
MSW_Tensors(sc) == [P_Tensor |-> sc.P_Tensor, invP_Tensor |-> sc.invP_Tensor]

\* Fc_i += Proj_ModJac_Tensor_i*U_i*Area with the instance's matrices
MSW_Flux_i(c, sc, Area) ==
  With(sc, [Fc_i |-> Accumulate(sc.Fc_i, MSW_Fc(c, MSW_Tensors(sc), sc.Lambda_i, c.U_i, Area))])

\* Fc_j += Proj_ModJac_Tensor_j*U_j*Area with the instance's matrices
MSW_Flux_j(c, sc, Area) ==
  With(sc, [Fc_j |-> Accumulate(sc.Fc_j, MSW_Fc(c, MSW_Tensors(sc), sc.Lambda_j, c.U_j, Area))])

\* thread t moves from pc to next, leaving the scratch arrays of its instance
\* as sc and the buffers of its call as res, Ji, Jj
ThreadStep(t, pc, next, sc, res, Ji, Jj) ==
  /\ kernel[t] = pc
  /\ kernel' = [kernel EXCEPT ![t] = next]
  /\ scratch' = [scratch EXCEPT ![InstanceOf(t)] = sc]
  /\ val_residual' = [val_residual EXCEPT ![t] = res]
  /\ val_Jacobian_i' = [val_Jacobian_i EXCEPT ![t] = Ji]
  /\ val_Jacobian_j' = [val_Jacobian_j EXCEPT ![t] = Jj]
  /\ heap' = IF \E u \in Threads \ {t} : kernel[u] \notin {"start", "done"}
               THEN {"overlap"} ELSE heap
  /\ UNCHANGED <<inst, inp, prev, val_source, proc>>

\* lines 333-383: the flux vectors and, implicit, the Jacobians zeroed; the
\* star states
ThreadStar(t) ==
  ThreadStep(t, "start", "eigen_i",
    MSW_StarStates(inp[t], scratch[InstanceOf(t)], MSW_w(inp[t])),
    val_residual[t],
    IF inp[t].implicit THEN ZeroMat(nVarOf(inp[t].nSpecies, inp[t].nDim)) ELSE val_Jacobian_i[t],
    IF inp[t].implicit THEN ZeroMat(nVarOf(inp[t].nSpecies, inp[t].nDim)) ELSE val_Jacobian_j[t])

\* lines 392-409
ThreadEigen_i(t) ==
  ThreadStep(t, "eigen_i", "flux_i",
    MSW_Eigen_i(inp[t], scratch[InstanceOf(t)],
                FaceUnitNormal(inp[t].Normal, inp[t].nDim), MSW_w(inp[t])),
    val_residual[t], val_Jacobian_i[t], val_Jacobian_j[t])

\* lines 411-424
ThreadFlux_i(t) ==
  ThreadStep(t, "flux_i", "eigen_j",
    MSW_Flux_i(inp[t], scratch[InstanceOf(t)], FaceArea(inp[t].Normal, inp[t].nDim)),
    val_residual[t],
    MSW_Jacobian(inp[t], MSW_Tensors(scratch[InstanceOf(t)]), scratch[InstanceOf(t)].Lambda_i,
                 FaceArea(inp[t].Normal, inp[t].nDim), val_Jacobian_i[t]),
    val_Jacobian_j[t])

\* lines 426-442
ThreadEigen_j(t) ==
  ThreadStep(t, "eigen_j", "flux_j",
    MSW_Eigen_j(inp[t], scratch[InstanceOf(t)],
                FaceUnitNormal(inp[t].Normal, inp[t].nDim), MSW_w(inp[t])),
    val_residual[t], val_Jacobian_i[t], val_Jacobian_j[t])

\* lines 444-456
ThreadFlux_j(t) ==
  ThreadStep(t, "flux_j", "split",
    MSW_Flux_j(inp[t], scratch[InstanceOf(t)], FaceArea(inp[t].Normal, inp[t].nDim)),
    val_residual[t], val_Jacobian_i[t],
    MSW_Jacobian(inp[t], MSW_Tensors(scratch[InstanceOf(t)]), scratch[InstanceOf(t)].Lambda_j,
                 FaceArea(inp[t].Normal, inp[t].nDim), val_Jacobian_j[t]))

\* lines 458-461: val_residual = Fc_i + Fc_j
ThreadSplit(t) ==
  ThreadStep(t, "split", "done", scratch[InstanceOf(t)],
    Store(val_residual[t],
          [iVar \in 0..(nVarOf(inp[t].nSpecies, inp[t].nDim) - 1) |->
             Add(scratch[InstanceOf(t)].Fc_i[iVar], scratch[InstanceOf(t)].Fc_j[iVar])]),
    val_Jacobian_i[t], val_Jacobian_j[t])

\* every thread has its edge and its buffers, and is about to call
ThreadInit ==
  /\ \E implicit \in BOOLEAN :
       /\ inst = [cls |-> "CUpwMSW_TNE2", nSpecies |-> 2, nDim |-> 2,
                  implicit |-> implicit, ionization |-> FALSE]
       /\ inp \in [Threads -> ThreadEdges(implicit)]
  /\ \E f \in PriorFill \ {Zero} :
       /\ prev = [t \in Threads |-> Buffers(nVarOf(2, 2), f)]
       /\ val_residual = [t \in Threads |-> Buffers(nVarOf(2, 2), f).residual]
       /\ val_Jacobian_i = [t \in Threads |-> Buffers(nVarOf(2, 2), f).Jacobian_i]
       /\ val_Jacobian_j = [t \in Threads |-> Buffers(nVarOf(2, 2), f).Jacobian_j]
  /\ val_source = NoBuf
  /\ kernel = [t \in Threads |-> "start"]
  /\ scratch = [i \in Threads |-> MSW_Scratch(2, 2)]
  /\ heap = {}
  /\ proc = Running

ThreadNext ==
  \E t \in Threads :
    \/ ThreadStar(t)
    \/ ThreadEigen_i(t)
    \/ ThreadFlux_i(t)
    \/ ThreadEigen_j(t)
    \/ ThreadFlux_j(t)
    \/ ThreadSplit(t)

SpecThreads == ThreadInit /\ [][ThreadNext]_vars

-----------------------------------------------------------------------------
(* Signs of the relaxation times of CSource_TNE2::ComputeVibRelaxation     *)

\* a real number known by its sign: "any" is a number of unknown sign,
\* "undef" the result of an operation that may be undefined (a division by
\* zero, a root or a fractional power of a negative number)
Signs == {"neg", "zero", "pos", "any", "undef"}

SgnNeg(a) == CASE a = "neg" -> "pos" [] a = "pos" -> "neg" [] OTHER -> a

SgnAdd(a, b) ==
  IF a = "undef" \/ b = "undef" THEN "undef"
  ELSE IF a = "zero" THEN b
  ELSE IF b = "zero" \/ a = b THEN a
  ELSE "any"

SgnSub(a, b) == SgnAdd(a, SgnNeg(b))

SgnMul(a, b) ==
  IF a = "undef" \/ b = "undef" THEN "undef"
  ELSE IF a = "zero" \/ b = "zero" THEN "zero"
  ELSE IF a = "any" \/ b = "any" THEN "any"
  ELSE IF a = b THEN "pos" ELSE "neg"

SgnDiv(a, b) == IF b \in {"zero", "any"} THEN "undef" ELSE SgnMul(a, b)

\* exp is positive wherever its argument is a number
SgnExp(a) == IF a = "undef" THEN "undef" ELSE "pos"

SgnSqrt(a) == IF a \in {"zero", "pos"} THEN a ELSE "undef"

\* pow(a, p) for a fractional exponent p of sign ps
SgnPow(a, ps) ==
  CASE a = "pos" -> "pos"
    [] a = "zero" /\ ps = "pos" -> "zero"
    [] OTHER -> "undef"

RECURSIVE SgnSumTo(_, _)
SgnSumTo(f, n) == IF n = 0 THEN "zero" ELSE SgnAdd(SgnSumTo(f, n - 1), f[n - 1])

\* conc = sum of rhos/Ms
Relax_conc(c) ==
  SgnSumTo([s \in 0..(c.nSpecies - 1) |-> SgnDiv(c.rhos[s], c.Ms[s])], c.nSpecies)

\* N = sum of rhos/Ms*AVOGAD_CONSTANT
Relax_N(c) ==
  SgnSumTo([s \in 0..(c.nSpecies - 1) |-> SgnMul(SgnDiv(c.rhos[s], c.Ms[s]), "pos")],
           c.nSpecies)

\* variant: the mole fractions measured from their mean
Relax_X_Centred(c, conc) ==
  [s \in 0..(c.nSpecies - 1) |-> SgnSub(SgnDiv(SgnDiv(c.rhos[s], c.Ms[s]), conc), "pos")]

\* X[iSpecies] = (rhos/Ms)/conc
Relax_X(c, conc) ==
  [s \in 0..(c.nSpecies - 1) |-> SgnDiv(SgnDiv(c.rhos[s], c.Ms[s]), conc)]

\* mu = Ms[i]*Ms[j]/(Ms[i]+Ms[j])
Relax_mu(c, i, j) == SgnDiv(SgnMul(c.Ms[i], c.Ms[j]), SgnAdd(c.Ms[i], c.Ms[j]))

\* tau_sr[i][j] = 101325/P * exp(A_sr*(pow(T,-1/3) - B_sr) - 18.42) with
\* A_sr = 1.16e-3*sqrt(mu)*pow(thetav[i], 4/3) and B_sr = 0.015*pow(mu, 0.25)
Relax_tau_sr(c, i, j) ==
  SgnMul(SgnDiv("pos", c.P),
         SgnExp(SgnSub(SgnMul(SgnMul(SgnMul("pos", SgnSqrt(Relax_mu(c, i, j))),
                                     SgnPow(c.thetav[i], "pos")),
                              SgnSub(SgnPow(c.T, "neg"),
                                     SgnMul("pos", SgnPow(Relax_mu(c, i, j), "pos")))),
                       "pos")))

\* tauMW[i] = num/denom, num the sum of X[j], denom the sum of X[j]/tau_sr[i][j]
Relax_tauMW(c, X, tau_sr, i) ==
  SgnDiv(SgnSumTo(X, c.nSpecies),
         SgnSumTo([j \in 0..(c.nSpecies - 1) |-> SgnDiv(X[j], tau_sr[i][j])], c.nSpecies))

\* tauP[i] = 1/(sig_s*Cs*N) with Cs = sqrt(8*Ru*T/(PI_NUMBER*Ms[i])) and
\* sig_s = 1e-20*(5e4*5e4)/(T*T)
Relax_tauP(c, N, i) ==
  SgnDiv("pos",
         SgnMul(SgnMul(SgnDiv(SgnMul("pos", SgnMul("pos", "pos")), SgnMul(c.T, c.T)),
                       SgnSqrt(SgnDiv(SgnMul(SgnMul("pos", "pos"), c.T),
                                      SgnMul("pos", c.Ms[i])))),
                N))

\* the times of every species: tau_sr, tauMW, tauP and taus = tauMW + tauP
Relax_Collect(c, X, N, tau_sr) ==
  [X |-> X, tau_sr |-> tau_sr,
   tauMW |-> [i \in 0..(c.nSpecies - 1) |-> Relax_tauMW(c, X, tau_sr, i)],
   tauP |-> [i \in 0..(c.nSpecies - 1) |-> Relax_tauP(c, N, i)],
   taus |-> [i \in 0..(c.nSpecies - 1) |->
               SgnAdd(Relax_tauMW(c, X, tau_sr, i), Relax_tauP(c, N, i))]]

Relax_Times(c) ==
  Relax_Collect(c, Relax_X(c, Relax_conc(c)), Relax_N(c),
                [i \in 0..(c.nSpecies - 1) |->
                   [j \in 0..(c.nSpecies - 1) |-> Relax_tau_sr(c, i, j)]])

\* the largest mixture tried
MaxRelaxSpecies == 3

\* the cells tried, by the signs of their entries: densities that vanish or
\* not, temperatures and pressures of every sign, characteristic vibrational
\* temperatures that vanish (atoms) or not
RelaxInputs ==
  { [nSpecies |-> n, rhos |-> rhos, Ms |-> [s \in 0..(n - 1) |-> "pos"],
     thetav |-> thetav, T |-> T, P |-> P] :
      n \in {MaxRelaxSpecies},
      rhos \in [0..(MaxRelaxSpecies - 1) -> {"zero", "pos"}],
      thetav \in { [s \in 0..(MaxRelaxSpecies - 1) |-> IF s < k THEN "pos" ELSE "zero"] : k \in {0, MaxRelaxSpecies} },
      T \in {"neg", "zero", "pos"}, P \in {"neg", "zero", "pos"} }

RelaxInit ==
  /\ Idle

\* one call on a cell c: X, tau_sr, tauMW, tauP, taus as the loop leaves them
RelaxCall ==
  /\ \E c \in RelaxInputs :
       /\ inp' = c
       /\ scratch' = Relax_Times(c)
  /\ kernel' = "ComputeVibRelaxation"
  /\ UNCHANGED <<inst, heap, prev, val_residual, val_source, val_Jacobian_i, val_Jacobian_j, proc>>

RelaxNext == RelaxCall

SpecRelax == RelaxInit /\ [][RelaxNext]_vars
-----------------------------------------------------------------------------
(* The split functions of CUpwAUSM_TNE2 and CUpwAUSMPLUSUP2_TNE2 at the     *)
(* branch boundary |m| = 1                                                  *)

\* bound of the distances tried beyond the boundary: 1/1 .. 1/MaxSteps
MaxSteps == 6

\* a Mach number `at` the boundary (1 or -1) and one `near` it in the
\* supersonic branch, at a distance of eps
SplitPoints ==
  { [at |-> R(b), near |-> Mul(R(b), Add(One, Q(1, k))), eps |-> Q(1, k)] :
      b \in {1, -1}, k \in 1..MaxSteps }

\* pressures of a cell
SplitPressures == { R(p) : p \in 1..4 }

\* alpha = 3/16*(-4+5*fa*fa) for fa in (0, 1]
SplitAlphas == { Q(-3, 4), Q(-3, 8), Zero, Q(3, 32), Q(3, 16) }

\* mLP, mRM, pLP, pRM of plain AUSM at the Mach number m on both sides
AUSM_SplitsAt(m, P) ==
  [mLP |-> AUSM_mLP(m), mRM |-> AUSM_mRM(m), pLP |-> AUSM_pLP(m, P), pRM |-> AUSM_pRM(m, P)]

\* the same of AUSM+-up2, with beta = 1/8; its pLP, pRM are factors of the
\* pressures
UP2_SplitsAt(m, alpha) ==
  [mLP |-> UP2_mLP(m, Q(1, 8)), mRM |-> UP2_mRM(m, Q(1, 8)),
   pLP |-> UP2_pLP(m, alpha), pRM |-> UP2_pRM(m, alpha)]

SplitDone(k, c, at, near) ==
  /\ kernel' = k
  /\ inp' = c
  /\ scratch' = [at |-> at, near |-> near]
  /\ UNCHANGED <<inst, heap, prev, val_residual, val_source, val_Jacobian_i, val_Jacobian_j, proc>>

AUSMSplitCall ==
  \E pt \in SplitPoints, P \in SplitPressures :
    SplitDone("CUpwAUSM", [at |-> pt.at, near |-> pt.near, eps |-> pt.eps, P |-> P, alpha |-> Zero],
              AUSM_SplitsAt(pt.at, P), AUSM_SplitsAt(pt.near, P))

UP2SplitCall ==
  \E pt \in SplitPoints, alpha \in SplitAlphas :
    SplitDone("CUpwAUSMPLUSUP2", [at |-> pt.at, near |-> pt.near, eps |-> pt.eps, P |-> One, alpha |-> alpha],
              UP2_SplitsAt(pt.at, alpha), UP2_SplitsAt(pt.near, alpha))

SplitInit ==
  /\ Idle

SplitNext == AUSMSplitCall \/ UP2SplitCall

SpecSplit == SplitInit /\ [][SplitNext]_vars

\* the source term k run on the cell c with the caller's buffers b
SourceOutput(k, c, b) ==
  CASE k = "ComputeChemistry" ->
         Chem_Output(c, b, CSource_ComputeChemistry(c, b.residual, b.source, b.Jacobian_i))
    [] k = "ComputeVibRelaxation" -> CSource_ComputeVibRelaxation(c, b)
    [] k = "ComputeAxisymmetric" -> CSource_ComputeAxisymmetric(c, b)

\* the kernel k run on the inputs c with the caller's buffers b
KernelOutput(k, c, b) ==
  CASE k = "CUpwRoe" -> Roe_Output(c, b, CUpwRoe_ComputeResidual(c, b.residual))
    [] k = "CUpwAUSM" -> AUSM_Output(c, b, CUpwAUSM_ComputeResidual(c, b.residual))
    [] k = "CUpwAUSMPLUSUP2" ->
         AUSMPLUSUP2_Output(c, b, CUpwAUSMPLUSUP2_ComputeResidual(c, b.residual))
    [] k = "CUpwMSW" -> CUpwMSW_ComputeResidual(c, b)
    [] k = "CUpwAUSMPWplus" -> CUpwAUSMPWplus_ComputeResidual(c, b)
    [] k = "CAvgGrad" -> CAvgGrad_ComputeResidual(c, b)
    [] k = "CAvgGradCorrected" -> CAvgGradCorrected_ComputeResidual(c, b)
    [] k = "CCentLax" -> CentLax_Output(c, b, CCentLax_ComputeResidual(c, b.residual))
    [] OTHER -> SourceOutput(k, c, b)

RoeReturn(c, b) ==
  Return("CUpwRoe", c, b, Roe_Output(c, b, CUpwRoe_ComputeResidual(c, b.residual)))

AUSMReturn(c, b) ==
  Return("CUpwAUSM", c, b, AUSM_Output(c, b, CUpwAUSM_ComputeResidual(c, b.residual)))

AUSMPLUSUP2Return(c, b) ==
  Return("CUpwAUSMPLUSUP2", c, b, AUSMPLUSUP2_Output(c, b, CUpwAUSMPLUSUP2_ComputeResidual(c, b.residual)))

MSWReturn(c, b) ==
  Return("CUpwMSW", c, b, CUpwMSW_ComputeResidual(c, b))

AUSMPWplusReturn(c, b) ==
  Return("CUpwAUSMPWplus", c, b, CUpwAUSMPWplus_ComputeResidual(c, b))

AvgGradReturn(c, b) ==
  Return("CAvgGrad", c, b, CAvgGrad_ComputeResidual(c, b))

AvgGradCorrectedReturn(c, b) ==
  Return("CAvgGradCorrected", c, b, CAvgGradCorrected_ComputeResidual(c, b))

CentLaxReturn(c, b) ==
  Return("CCentLax", c, b, CentLax_Output(c, b, CCentLax_ComputeResidual(c, b.residual)))

SourceReturn(k, c, b) == Return(k, c, b, SourceOutput(k, c, b))

RoeCall ==
  /\ inst.cls = "CUpwRoe_TNE2"
  /\ proc = Running
  /\ \E c \in Faces(inst.nSpecies, inst.nDim), f \in PriorFill,
        eb \in EigenBases(nVarOf(inst.nSpecies, inst.nDim)) :
       RoeReturn(
            With(With(c, Config(inst.nSpecies, inst.nDim)),
                 [RoedPdU |-> ConstVec(nVarOf(inst.nSpecies, inst.nDim), Q(2, 5)),
                  P_Tensor |-> eb.P_Tensor, invP_Tensor |-> eb.invP_Tensor]),
            Buffers(nVarOf(inst.nSpecies, inst.nDim), f))

\* dPdUst_i, dPdUst_j: what CalcdPdU returns for the two star states
MSWCall ==
  /\ inst.cls = "CUpwMSW_TNE2"
  /\ proc = Running
  /\ \E c \in Faces(inst.nSpecies, inst.nDim), f \in PriorFill,
        eb \in EigenBases(nVarOf(inst.nSpecies, inst.nDim)) :
       MSWReturn(
            With(With(c, Config(inst.nSpecies, inst.nDim)),
                 [eb_i |-> eb, eb_j |-> eb,
                  dPdUst_i |-> ConstVec(nVarOf(inst.nSpecies, inst.nDim), Q(1, 7)),
                  dPdUst_j |-> ConstVec(nVarOf(inst.nSpecies, inst.nDim), Q(1, 9))]),
            Buffers(nVarOf(inst.nSpecies, inst.nDim), f))

AUSMCall ==
  /\ inst.cls = "CUpwAUSM_TNE2"
  /\ proc = Running
  /\ \E c \in Faces(inst.nSpecies, inst.nDim), f \in PriorFill :
       AUSMReturn( With(c, Config(inst.nSpecies, inst.nDim)),
            Buffers(nVarOf(inst.nSpecies, inst.nDim), f))

AUSMPLUSUP2Call ==
  /\ inst.cls = "CUpwAUSMPLUSUP2_TNE2"
  /\ proc = Running
  /\ \E c \in Faces(inst.nSpecies, inst.nDim), f \in PriorFill :
       AUSMPLUSUP2Return( With(c, Config(inst.nSpecies, inst.nDim)),
            Buffers(nVarOf(inst.nSpecies, inst.nDim), f))

\* the entries of daL, daR and the dmb arrays that the call reads without
\* having written them hold an indeterminate value g
AUSMPWplusCall ==
  /\ inst.cls = "CUpwAUSMPWplus_TNE2"
  /\ proc = Running
  /\ \E c \in Faces(inst.nSpecies, inst.nDim), f \in PriorFill, g \in Garbage :
       AUSMPWplusReturn(
            With(With(c, Config(inst.nSpecies, inst.nDim)),
                 [uninit |-> ConstVec(nVarOf(inst.nSpecies, inst.nDim), g)]),
            Buffers(nVarOf(inst.nSpecies, inst.nDim), f))

CentLaxCall ==
  /\ inst.cls = "CCentLax_TNE2"
  /\ proc = Running
  /\ \E c \in Faces(inst.nSpecies, inst.nDim), f \in PriorFill, L_i \in {0, 3} :
       CentLaxReturn(
            With(With(c, Config(inst.nSpecies, inst.nDim)),
                 [Lambda_i |-> R(L_i), Lambda_j |-> R(1), Neighbor_i |-> 2, Neighbor_j |-> 3,
                  Param_Kappa_0 |-> Half, powLo |-> Half, powHi |-> R(2)]),
            Buffers(nVarOf(inst.nSpecies, inst.nDim), f))

AvgGradCall ==
  /\ inst.cls = "CAvgGrad_TNE2"
  /\ proc = Running
  /\ \E c \in Faces(inst.nSpecies, inst.nDim), f \in PriorFill :
       AvgGradReturn(
            With(With(c, Config(inst.nSpecies, inst.nDim)), ViscousData(inst.nSpecies, inst.nDim)),
            Buffers(nVarOf(inst.nSpecies, inst.nDim), f))

AvgGradCorrectedCall ==
  /\ inst.cls = "CAvgGradCorrected_TNE2"
  /\ proc = Running
  /\ \E c \in Faces(inst.nSpecies, inst.nDim), f \in PriorFill :
       AvgGradCorrectedReturn(
            With(With(c, Config(inst.nSpecies, inst.nDim)), ViscousData(inst.nSpecies, inst.nDim)),
            Buffers(nVarOf(inst.nSpecies, inst.nDim), f))

\* a source term k of a CSource_TNE2 object run on a cell at a height of ys;
\* the entries of Ys, which the object never writes, hold a value of gs
SourceCall(k, ys, gs) ==
  /\ inst.cls = "CSource_TNE2"
  /\ proc = Running
  /\ \E c \in Cells(inst.nSpecies, inst.nDim, ys), f \in PriorFill, g \in gs :
       SourceReturn(k, With(c, [uninit |-> ConstVec(inst.nSpecies, g), ionization |-> inst.ionization,
                        Ru |-> R(8), xi |-> ConstVec(inst.nSpecies, R(2))]),
            Buffers(nVarOf(inst.nSpecies, inst.nDim), f))

LifeInit ==
  /\ Idle

Next ==
  \/ Construct
  \/ Destroy
  \/ RoeCall
  \/ MSWCall
  \/ AUSMCall
  \/ AUSMPLUSUP2Call
  \/ AUSMPWplusCall
  \/ CentLaxCall
  \/ AvgGradCall
  \/ AvgGradCorrectedCall
  \/ SourceCall("ComputeChemistry", {2}, {Zero})
  \/ SourceCall("ComputeVibRelaxation", {2}, {Zero})
  \/ SourceCall("ComputeAxisymmetric", {0, 2}, Garbage)

Spec == LifeInit /\ [][Next]_vars


\* ---------------------------------------------------------------------------
\* Output buffers
\* ---------------------------------------------------------------------------

FluxKernels ==
  {"CUpwRoe", "CUpwMSW", "CUpwAUSM", "CUpwAUSMPLUSUP2", "CUpwAUSMPWplus", "CCentLax"}

ViscousKernels == {"CAvgGrad", "CAvgGradCorrected"}

SourceKernels == {"ComputeChemistry", "ComputeVibRelaxation", "ComputeAxisymmetric"}

Kernels == FluxKernels \cup ViscousKernels \cup SourceKernels

\* the call that has just returned, run again on buffers left with f
Rerun(f) == KernelOutput(kernel, inp, Buffers(nVarOf(inst.nSpecies, inst.nDim), f))

\* what a call added to val_source
Increment(after, before) == [k \in DOMAIN after |-> Sub(after[k], before[k])]

\* C6: after a kernel has returned, val_residual and val_source hold what
\* they would hold had the buffers been entered with any other content: the
\* outputs are overwritten, not accumulated.
C6_OutputsIgnorePriorContents ==
  (kernel \in Kernels /\ proc = Running) =>
    \A f \in PriorFill :
      /\ Rerun(f).residual = val_residual
      /\ kernel \in SourceKernels => Rerun(f).source = val_source

\* C6: after a kernel has returned, val_residual holds what it would hold had
\* the buffers been entered with any other content; val_source of a source
\* kernel is what it held on entry plus an increment that does not depend on
\* the content of the buffers on entry.
C6_ResidualOverwrittenSourceAccumulated ==
  (kernel \in Kernels /\ proc = Running) =>
    \A f \in PriorFill :
      /\ Rerun(f).residual = val_residual
      /\ kernel \in SourceKernels =>
           Increment(Rerun(f).source, Buffers(nVarOf(inst.nSpecies, inst.nDim), f).source)
             = Increment(val_source, prev.source)

\* a relaxation call entered with leftovers in both buffers: the residual no
\* longer holds them, val_source has moved from what it held
C6_Witness ==
  /\ kernel = "ComputeVibRelaxation"
  /\ proc = Running
  /\ prev.residual[0] = R(7)
  /\ val_residual[0] = Zero
  /\ val_source # prev.source

\* ---------------------------------------------------------------------------
\* Scratch arrays between calls
\* ---------------------------------------------------------------------------

\* C7: every scratch entry that a ComputeResidual call of the AUSM family
\* reads (daL, daR, dmbLPdL, dmbLPdR, dmbRMdL, dmbRMdR) has been written
\* earlier in the same call, so that nothing of an earlier call reaches the
\* residual or the Jacobians.
C7_ScratchReadsFollowWrites ==
  kernel \in {"CUpwAUSM", "CUpwAUSMPLUSUP2", "CUpwAUSMPWplus"} =>
    scratch.unwritten = {}

\* ---------------------------------------------------------------------------
\* Explicit time integration
\* ---------------------------------------------------------------------------

\* C8: when the implicit flag is false, the Jacobians hold after a call of any
\* convective scheme, viscous scheme or source kernel exactly what they held
\* before it.
C8_ExplicitLeavesJacobians ==
  (kernel \in Kernels /\ ~inst.implicit) =>
    /\ val_Jacobian_i = prev.Jacobian_i
    /\ val_Jacobian_j = prev.Jacobian_j

\* an explicit flux-vector-splitting call that has written the residual
C8_Witness ==
  /\ kernel = "CUpwMSW"
  /\ ~inst.implicit
  /\ prev.Jacobian_i[0][0] = R(7)
  /\ val_Jacobian_i[0][0] = R(7)
  /\ val_residual # prev.residual

\* ---------------------------------------------------------------------------
\* Ionized viscous flux
\* ---------------------------------------------------------------------------

\* C9: with the ionization flag set, a call of either viscous scheme prints the
\* diagnostic and ends the process with status 1, Proj_Flux_Tensor not
\* projected and val_residual not written; with the flag not set no call
\* ends the process.
C9_IonizedViscousPathExits ==
  /\ kernel \in ViscousKernels =>
       IF inst.ionization
         THEN /\ proc = [state |-> "exited", status |-> 1,
                         cout |-> "GetViscProjFlux -- NEED TO IMPLEMENT IONIZED FUNCTIONALITY!!!"]
              /\ scratch.Proj_Flux_Tensor = ZeroVec(nVarOf(inst.nSpecies, inst.nDim))
              /\ val_residual = prev.residual
         ELSE proc = Running
  /\ proc # Running => (kernel \in ViscousKernels /\ inst.ionization)

\* an ionized call of the corrected scheme, entered with leftovers in the
\* residual, has ended the process
C9_Witness ==
  /\ kernel = "CAvgGradCorrected"
  /\ inst.ionization
  /\ proc # Running
  /\ prev.residual[0] = R(7)
  /\ val_residual[0] = R(7)

\* ---------------------------------------------------------------------------
\* Scratch-buffer lifecycle
\* ---------------------------------------------------------------------------

\* C10: once every constructed object has been destroyed, none of the arrays
\* that the constructors allocated remains allocated: each destructor releases
\* the arrays of its constructor.
C10_DestructorReleasesEveryBuffer ==
  inst = NoInst => heap = {}

\* ---------------------------------------------------------------------------
\* Thread confinement
\* ---------------------------------------------------------------------------

\* thread t's call has left in its buffers what out holds
ReturnedBy(t, out) ==
  /\ val_residual[t] = out.residual
  /\ val_Jacobian_i[t] = out.Jacobian_i
  /\ val_Jacobian_j[t] = out.Jacobian_j

\* C11: when several threads each run ComputeResidual on their own scheme
\* instance, then whatever the interleaving of their steps, the residual and
\* the Jacobians a call returns are those of the same call run alone.
C11_OwnInstanceCallsAreIsolated ==
  \A t \in Threads :
    kernel[t] = "done" => ReturnedBy(t, CUpwMSW_ComputeResidual(inp[t], prev[t]))

\* two calls on different edges have overlapped and both have returned
C11_Witness ==
  /\ \A t \in Threads : kernel[t] = "done"
  /\ heap = {"overlap"}
  /\ inp[1] # inp[2]
  /\ val_residual[1] # val_residual[2]

\* ---------------------------------------------------------------------------
\* Relaxation times
\* ---------------------------------------------------------------------------

\* T > 0, P > 0, the molar masses > 0, the densities >= 0 and one of them > 0
RelaxValid(c) ==
  /\ c.T = "pos"
  /\ c.P = "pos"
  /\ \A s \in DOMAIN c.Ms : c.Ms[s] = "pos"
  /\ \A s \in DOMAIN c.rhos : c.rhos[s] \in {"zero", "pos"}
  /\ \E s \in DOMAIN c.rhos : c.rhos[s] = "pos"

\* C12: for every input with T > 0, P > 0, molar masses > 0, densities >= 0
\* and one of them > 0, every tau_sr, tauMW, tauP and taus that
\* ComputeVibRelaxation computes is strictly positive, so the residual never
\* divides by zero.
C12_RelaxationTimesPositive ==
  (kernel = "ComputeVibRelaxation" /\ RelaxValid(inp)) =>
    \A s \in DOMAIN scratch.taus :
      /\ \A r \in DOMAIN scratch.taus : scratch.tau_sr[s][r] = "pos"
      /\ scratch.tauMW[s] = "pos"
      /\ scratch.tauP[s] = "pos"
      /\ scratch.taus[s] = "pos"

\* a valid cell in which one species is absent
C12_Witness ==
  /\ kernel = "ComputeVibRelaxation"
  /\ RelaxValid(inp)
  /\ \E s \in DOMAIN inp.rhos : inp.rhos[s] = "zero"
  /\ scratch.taus[0] = "pos"

\* ---------------------------------------------------------------------------
\* Implicit Jacobians
\* ---------------------------------------------------------------------------

\* the matrix J holds a number in every entry
AllNumbers(J) == \A i \in DOMAIN J : \A j \in DOMAIN J[i] : ~IsNaN(J[i][j])

\* C13: every entry of val_Jacobian_i and val_Jacobian_j that an implicit
\* convective scheme returns equals, to a relative tolerance, the finite
\* difference of its residual row; an entry that matches a difference
\* quotient to a tolerance is a number.
C13_JacobianEntriesMatchDifferences ==
  (kernel \in FluxKernels /\ inst.implicit) =>
    /\ AllNumbers(val_Jacobian_i)
    /\ AllNumbers(val_Jacobian_j)

\* ---------------------------------------------------------------------------
\* AUSMPW+ inputs
\* ---------------------------------------------------------------------------

\* C14: in CUpwAUSMPWplus_TNE2::ComputeResidual the velocities u_i, u_j and
\* the pressures P_i, P_j are those stored in V_i, V_j; mL and mR are their
\* normal components divided by aij, and the momentum entries of FcL, FcR
\* are rho*u of those velocities.
C14_PWplusReadsVelocityAndPressure ==
  kernel = "CUpwAUSMPWplus" =>
    /\ \A d \in 0..(inp.nDim - 1) :
         /\ scratch.u_i[d] = inp.V_i[VEL_INDEX(inp.nSpecies) + d]
         /\ scratch.u_j[d] = inp.V_j[VEL_INDEX(inp.nSpecies) + d]
         /\ scratch.FcL[inp.nSpecies + d]
              = Mul(inp.V_i[RHO_INDEX(inp.nSpecies, inp.nDim)],
                    inp.V_i[VEL_INDEX(inp.nSpecies) + d])
         /\ scratch.FcR[inp.nSpecies + d]
              = Mul(inp.V_j[RHO_INDEX(inp.nSpecies, inp.nDim)],
                    inp.V_j[VEL_INDEX(inp.nSpecies) + d])
    /\ scratch.P_i = inp.V_i[P_INDEX(inp.nSpecies, inp.nDim)]
    /\ scratch.P_j = inp.V_j[P_INDEX(inp.nSpecies, inp.nDim)]
    /\ scratch.mL = Div(ProjVel(inp.nSpecies, inp.nDim, inp.V_i,
                                FaceUnitNormal(inp.Normal, inp.nDim)), scratch.aij)
    /\ scratch.mR = Div(ProjVel(inp.nSpecies, inp.nDim, inp.V_j,
                                FaceUnitNormal(inp.Normal, inp.nDim)), scratch.aij)

\* ---------------------------------------------------------------------------
\* Scratch index bounds
\* ---------------------------------------------------------------------------

\* C15: every read or write of a constructor-allocated scratch array inside a
\* convective ComputeResidual uses an index below the allocated length: the
\* indices used on dmbLPdL, dmbLPdR, dmbRMdL, dmbRMdR of AUSMPW+, on daL, daR
\* and on Lambda in the Roe entropy fix lie in 0..nVar-1.
C15_ScratchIndicesInBounds ==
  kernel \in {"CUpwRoe", "CUpwAUSM", "CUpwAUSMPLUSUP2", "CUpwAUSMPWplus"} =>
    scratch.outside = {}

\* ---------------------------------------------------------------------------
\* Centered scheme: spectral radius
\* ---------------------------------------------------------------------------

\* |V . Normal| + a*Area of one cell, Area the length of the Normal
SpectralRadius(c, V) ==
  Add(Fabs(ProjVel(c.nSpecies, c.nDim, V, c.Normal)),
      Mul(V[A_INDEX(c.nSpecies, c.nDim)], FaceArea(c.Normal, c.nDim)))

\* C16: in CCentLax_TNE2::ComputeResidual MeanLambda is the arithmetic mean of
\* Local_Lambda_i = |V_i . Normal| + a_i*Area and
\* Local_Lambda_j = |V_j . Normal| + a_j*Area with Area = |Normal| > 0.
C16_CentLaxSpectralRadius ==
  kernel = "CCentLax" =>
    scratch.MeanLambda
      = Mul(Half, Add(SpectralRadius(inp, inp.V_i), SpectralRadius(inp, inp.V_j)))

\* ---------------------------------------------------------------------------
\* Flux-vector splitting: eigenvectors
\* ---------------------------------------------------------------------------

\* C17: in CUpwMSW_TNE2::ComputeResidual every argument from which P and P^-1
\* of a side are built is a star-state quantity of that side: Ust, Vst and
\* dPdUst, the pressure derivatives CalcdPdU evaluates at the star state.
C17_MSWEigenvectorsAtStarStates ==
  kernel = "CUpwMSW" =>
    /\ scratch.GetPMatrix_i.U = [k \in DOMAIN inp.U_i |-> MSW_Star(scratch.w, inp.U_i[k], inp.U_j[k])]
    /\ scratch.GetPMatrix_i.V = [k \in DOMAIN inp.V_i |-> MSW_Star(scratch.w, inp.V_i[k], inp.V_j[k])]
    /\ scratch.GetPMatrix_i.dPdU = inp.dPdUst_i
    /\ scratch.GetPMatrix_j.U = [k \in DOMAIN inp.U_j |-> MSW_Star(scratch.w, inp.U_j[k], inp.U_i[k])]
    /\ scratch.GetPMatrix_j.V = [k \in DOMAIN inp.V_j |-> MSW_Star(scratch.w, inp.V_j[k], inp.V_i[k])]
    /\ scratch.GetPMatrix_j.dPdU = inp.dPdUst_j

\* ---------------------------------------------------------------------------
\* Source kernels: val_source
\* ---------------------------------------------------------------------------

\* C18: val_source after a source kernel minus val_source before it equals
\* the final val_residual of the call divided by Volume, in every row.
C18_SourceAddedOnce ==
  (kernel \in SourceKernels /\ proc = Running) =>
    \A k \in DOMAIN val_source :
      Sub(val_source[k], prev.source[k]) = Div(val_residual[k], inp.Volume)

\* ---------------------------------------------------------------------------
\* AUSM, AUSM+-up2: derivatives of the split functions
\* ---------------------------------------------------------------------------

\* C19: in an implicit call of plain AUSM or AUSM+-up2, mL < -1 (mLP = 0 and
\* pLP = 0 in the flux) leaves val_Jacobian_i zero in every entry, and mR > 1
\* (mRM = 0 and pRM = 0) leaves val_Jacobian_j zero in every entry.
C19_ZeroSplitGivesZeroJacobian ==
  (kernel \in {"CUpwAUSM", "CUpwAUSMPLUSUP2"} /\ proc = Running /\ inst.implicit) =>
    /\ Lt(scratch.mL, R(-1)) => val_Jacobian_i = ZeroMat(nVarOf(inp.nSpecies, inp.nDim))
    /\ Gt(scratch.mR, One) => val_Jacobian_j = ZeroMat(nVarOf(inp.nSpecies, inp.nDim))

\* ---------------------------------------------------------------------------
\* Axisymmetric source: Jacobian
\* ---------------------------------------------------------------------------

\* C20: in an implicit ComputeAxisymmetric the species block of val_Jacobian
\* is built from dYdr[s][r] = (delta_sr - Y_s)/rho with the mass fraction
\* Y_s = V_i[RHOS_INDEX+s]/rho of the cell of this call: the entry (s, r) is
\* dYdr[s][r]*rhov*yinv*Volume.
C20_AxisymmetricJacobianUsesCellMassFractions ==
  (kernel = "ComputeAxisymmetric" /\ proc = Running /\ inst.implicit) =>
    \A s \in 0..(inp.nSpecies - 1) : \A r \in 0..(inp.nSpecies - 1) :
      val_Jacobian_i[s][r]
        = Mul(Mul(Div(Sub(IF s = r THEN One ELSE Zero,
                          Div(inp.V_i[RHOS_INDEX + s], inp.V_i[RHO_INDEX(inp.nSpecies, inp.nDim)])),
                      inp.V_i[RHO_INDEX(inp.nSpecies, inp.nDim)]),
                  inp.U_i[inp.nSpecies + 1]),
              Mul(Axi_yinv(inp), inp.Volume))

\* ---------------------------------------------------------------------------
\* Centered Lax-Friedrichs: dissipation Jacobians
\* ---------------------------------------------------------------------------

\* cte = Epsilon_0*StretchingFactor*MeanLambda, read off the first diagonal
\* entry of val_Jacobian_i
CentLax_cte == Sub(val_Jacobian_i[0][0], inp.ProjJac[0][0])

\* C21: in an implicit CCentLax_TNE2::ComputeResidual what the dissipation
\* subtracts from every entry of val_Jacobian_j is what it adds to the same
\* entry of val_Jacobian_i with dPdU_j in place of dPdU_i at the same index;
\* the momentum column d of the total-energy row receives -cte*dPdU_j[nSpecies+d].
C21_CentLaxJacobiansMirror ==
  (kernel = "CCentLax" /\ proc = Running /\ inst.implicit) =>
    \A iVar \in DOMAIN val_Jacobian_j : \A jVar \in DOMAIN val_Jacobian_j[iVar] :
      Sub(inp.ProjJac[iVar][jVar], val_Jacobian_j[iVar][jVar])
        = CentLax_JacobianTerm_i(With(inp, [dPdU_i |-> inp.dPdU_j]), CentLax_cte, iVar, jVar)

\* ---------------------------------------------------------------------------
\* Equilibrium constants: interpolation inside the table
\* ---------------------------------------------------------------------------

\* C22: for 1e14 <= N < 1e19 with p = floor(log10 N) the coefficients returned
\* are the linear interpolation in N between table row p-14, taken at 10^p,
\* and row p-13, taken at 10^(p+1); N = mant*10^p gives the weight (mant-1)/9.
C22_KeqInterpolatedByDecade ==
  (kernel = "GetKeqConstants" /\ 14 <= inp.dec /\ inp.dec < 19) =>
    \A ii \in 0..4 :
      scratch.A[ii]
        = Add(RxnConstantTable(inp.val_Reaction)[inp.dec - 14][ii],
              Mul(Sub(RxnConstantTable(inp.val_Reaction)[inp.dec - 13][ii],
                      RxnConstantTable(inp.val_Reaction)[inp.dec - 14][ii]),
                  Div(Sub(inp.mant, One), R(9))))

\* ---------------------------------------------------------------------------
\* Roe: the index of the entropy-fix thresholds
\* ---------------------------------------------------------------------------

\* the rows of the species, the tangential directions and the
\* vibrational-electronic energy
Roe_ConvectiveRows ==
  (0..(inp.nSpecies + inp.nDim - 2)) \cup {inp.nSpecies + inp.nDim + 1}

\* ProjVelocity of the Roe state: the mean of the two acoustic eigenvalues
Roe_ProjVelocity ==
  Mul(Half, Add(scratch.Lambda0[inp.nSpecies + inp.nDim - 1],
                scratch.Lambda0[inp.nSpecies + inp.nDim]))

\* C23: every Lambda[iDim] read for the Epsilon of a species, tangential or
\* vibrational-energy row is in bounds and holds the uncorrected ProjVelocity,
\* so that Epsilon equals the one computed from the row's own eigenvalue.
C23_EntropyFixIndexEquivalent ==
  kernel = "CUpwRoe" =>
    \A k \in Roe_ConvectiveRows :
      /\ Roe_EpsilonIndex(inp.nSpecies, inp.nDim, k) \in DOMAIN scratch.Lambda0
      /\ scratch.Lambda0[Roe_EpsilonIndex(inp.nSpecies, inp.nDim, k)] = Roe_ProjVelocity
      /\ scratch.Epsilon[k]
           = Mul(R(4), Max(Zero, Max(Sub(scratch.Lambda0[k], NormalVelocity_i),
                                     Sub(ProjVel(inp.nSpecies, inp.nDim, inp.V_j,
                                                 FaceUnitNormal(inp.Normal, inp.nDim)),
                                         scratch.Lambda0[k]))))

\* a one-species mixture in three dimensions with the correction active on
\* the species row
C23_Witness ==
  /\ kernel = "CUpwRoe"
  /\ inp.nSpecies = 1 /\ inp.nDim = 3
  /\ Gt(scratch.Epsilon[0], Zero)

\* ---------------------------------------------------------------------------
\* AUSM: supersonic faces
\* ---------------------------------------------------------------------------

\* C24: plain AUSM on a face with mL > 1 and mR > 1 has mF = mL, pF = P_i and
\* the projected flux of the left state as its residual; with mL < -1 and
\* mR < -1 it has mF = mR, pF = P_j and the projected flux of the right state.
C24_SupersonicFullUpwinding ==
  kernel = "CUpwAUSM" =>
    /\ (Gt(scratch.mL, One) /\ Gt(scratch.mR, One)) =>
         /\ scratch.mF = scratch.mL
         /\ scratch.pF = inp.V_i[P_INDEX(inp.nSpecies, inp.nDim)]
         /\ val_residual
              = GetInviscidProjFlux(inp.nSpecies, inp.nDim, inp.U_i, inp.V_i, inp.Normal)
    /\ (Lt(scratch.mL, R(-1)) /\ Lt(scratch.mR, R(-1))) =>
         /\ scratch.mF = scratch.mR
         /\ scratch.pF = inp.V_j[P_INDEX(inp.nSpecies, inp.nDim)]
         /\ val_residual
              = GetInviscidProjFlux(inp.nSpecies, inp.nDim, inp.U_j, inp.V_j, inp.Normal)

\* a face supersonic from left to right between two different states
C24_Witness ==
  /\ kernel = "CUpwAUSM"
  /\ Gt(scratch.mL, One) /\ Gt(scratch.mR, One)
  /\ inp.U_i # inp.U_j

\* ---------------------------------------------------------------------------
\* AUSM, AUSM+-up2: the split functions at |m| = 1
\* ---------------------------------------------------------------------------

\* the values the split functions take at the boundary m (1 or -1), P the
\* pressure (1 for the pressure factors of AUSM+-up2)
SplitBoundaryValues(m, P) ==
  IF m = One THEN [mLP |-> One, mRM |-> Zero, pLP |-> P, pRM |-> Zero]
  ELSE [mLP |-> Zero, mRM |-> R(-1), pLP |-> Zero, pRM |-> P]

\* C25: at m = 1 and m = -1 the polynomial branch gives mLP = 1 and 0,
\* pLP = the full pressure (factor) and 0, mRM = 0 and -1, pRM = 0 and the
\* full pressure (factor), with no contribution of the alpha and beta terms;
\* the supersonic branch meets these values: at a distance eps beyond the
\* boundary the split Mach numbers differ from them by eps at most and the
\* split pressures not at all.
C25_SplitFunctionsContinuous ==
  (kernel \in {"CUpwAUSM", "CUpwAUSMPLUSUP2"}) =>
    /\ scratch.at = SplitBoundaryValues(inp.at, inp.P)
    /\ Le(Fabs(Sub(scratch.near.mLP, scratch.at.mLP)), inp.eps)
    /\ Le(Fabs(Sub(scratch.near.mRM, scratch.at.mRM)), inp.eps)
    /\ scratch.near.pLP = scratch.at.pLP
    /\ scratch.near.pRM = scratch.at.pRM

\* AUSM+-up2 at m = -1 with a non-zero alpha, approached from m = -7/6
C25_Witness ==
  /\ kernel = "CUpwAUSMPLUSUP2"
  /\ inp.at = R(-1) /\ inp.near = Q(-7, 6) /\ inp.alpha = Q(-3, 4)
  /\ scratch.at.pRM = One /\ scratch.near.mRM = Q(-7, 6)

\* ---------------------------------------------------------------------------
\* Flux-vector splitting: eigenvalues
\* ---------------------------------------------------------------------------

\* lambda_k of the star state of a side: V is the side's primitive vector,
\* V_other the other side's; normal velocity, plus the sound speed at
\* nSpecies+nDim-1, minus it at nSpecies+nDim
MSW_StarEigenvalue(V, V_other, k) ==
  LET u == MSW_Star(scratch.w,
                    ProjVel(inp.nSpecies, inp.nDim, V, FaceUnitNormal(inp.Normal, inp.nDim)),
                    ProjVel(inp.nSpecies, inp.nDim, V_other, FaceUnitNormal(inp.Normal, inp.nDim)))
      a == MSW_Star(scratch.w, V[A_INDEX(inp.nSpecies, inp.nDim)],
                    V_other[A_INDEX(inp.nSpecies, inp.nDim)])
  IN  IF k = inp.nSpecies + inp.nDim - 1 THEN Add(u, a)
      ELSE IF k = inp.nSpecies + inp.nDim THEN Sub(u, a)
      ELSE u

\* C26: in CUpwMSW_TNE2::ComputeResidual Lambda_i[k] = max(lambda_k(star_i), 0)
\* and Lambda_j[k] = min(lambda_k(star_j), 0) for every mode k, and where
\* the two star states coincide Lambda_i[k] + Lambda_j[k] = lambda_k.
C26_MSWEigenvalueSplitting ==
  (kernel = "CUpwMSW" /\ proc = Running) =>
    \A k \in DOMAIN scratch.Lambda_i :
      /\ scratch.Lambda_i[k] = Max(MSW_StarEigenvalue(inp.V_i, inp.V_j, k), Zero)
      /\ scratch.Lambda_j[k] = Min(MSW_StarEigenvalue(inp.V_j, inp.V_i, k), Zero)
      /\ Ge(scratch.Lambda_i[k], Zero) /\ Le(scratch.Lambda_j[k], Zero)
      /\ scratch.GetPMatrix_i.V = scratch.GetPMatrix_j.V =>
           Add(scratch.Lambda_i[k], scratch.Lambda_j[k])
             = MSW_StarEigenvalue(inp.V_i, inp.V_j, k)

\* two different cells whose star states coincide, with a mode running to the
\* right and a mode running to the left
C26_Witness ==
  /\ kernel = "CUpwMSW" /\ proc = Running
  /\ inp.V_i # inp.V_j
  /\ scratch.GetPMatrix_i.V = scratch.GetPMatrix_j.V
  /\ \E k \in DOMAIN scratch.Lambda_i : Gt(scratch.Lambda_i[k], Zero)
  /\ \E k \in DOMAIN scratch.Lambda_j : Lt(scratch.Lambda_j[k], Zero)

\* ---------------------------------------------------------------------------
\* Viscous flux: species diffusion
\* ---------------------------------------------------------------------------

\* the mean mass fractions of the face of the last call sum to 1
MeanMassFractionsSumToOne ==
  VSum([s \in 0..(inp.nSpecies - 1) |->
          Mul(Half, Add(Visc_PrimVar(inp, inp.V_i)[s], Visc_PrimVar(inp, inp.V_j)[s]))],
       inp.nSpecies) = One

\* C27: in a viscous call on a non-ionized mixture whose mean mass fractions
\* sum to 1 the species rows of Flux_Tensor sum to zero in every direction,
\* and so do the species rows of the projected flux left in val_residual.
C27_SpeciesDiffusionSumsToZero ==
  (kernel \in ViscousKernels /\ proc = Running /\ ~inp.ionization /\ MeanMassFractionsSumToOne) =>
    /\ \A d \in 0..(inp.nDim - 1) :
         VSum([s \in 0..(inp.nSpecies - 1) |-> scratch.Flux_Tensor[s][d]], inp.nSpecies) = Zero
    /\ VSum([s \in 0..(inp.nSpecies - 1) |-> val_residual[s]], inp.nSpecies) = Zero

\* the species diffuse: a species row of the projected flux is not zero
C27_Witness ==
  /\ kernel \in ViscousKernels /\ proc = Running /\ ~inp.ionization
  /\ MeanMassFractionsSumToOne
  /\ val_residual[0] # Zero

\* ---------------------------------------------------------------------------
\* Corrected average of gradients
\* ---------------------------------------------------------------------------

\* Coord_j - Coord_i of the face of the last call
EdgeVector == [d \in 0..(inp.nDim - 1) |-> Sub(inp.Coord_j[d], inp.Coord_i[d])]

\* C28: in CAvgGradCorrected_TNE2::ComputeResidual between distinct points the
\* corrected mean gradient of every variable, dotted with the edge vector, is
\* PrimVar_j - PrimVar_i, and it differs from the uncorrected mean gradient
\* by a multiple of the edge vector only.
C28_EdgeCorrectionGivesSecantSlope ==
  (kernel = "CAvgGradCorrected" /\ proc = Running /\ inp.Coord_i # inp.Coord_j) =>
    \A iVar \in 0..(inp.nPrimVarGrad - 1) :
      /\ Dot(scratch.Mean_GradPrimVar[iVar], EdgeVector, inp.nDim)
           = Sub(Visc_PrimVar(inp, inp.V_j)[iVar], Visc_PrimVar(inp, inp.V_i)[iVar])
      /\ \A d \in 0..(inp.nDim - 1) : \A e \in 0..(inp.nDim - 1) :
           Mul(Sub(scratch.Mean_GradPrimVar[iVar][d], Visc_MeanGrad(inp)[iVar][d]), EdgeVector[e])
             = Mul(Sub(scratch.Mean_GradPrimVar[iVar][e], Visc_MeanGrad(inp)[iVar][e]), EdgeVector[d])

\* the correction changed the mean gradient of a variable
C28_Witness ==
  /\ kernel = "CAvgGradCorrected" /\ proc = Running
  /\ inp.Coord_i # inp.Coord_j
  /\ \E iVar \in 0..(inp.nPrimVarGrad - 1) :
       scratch.Mean_GradPrimVar[iVar] # Visc_MeanGrad(inp)[iVar]

\* ---------------------------------------------------------------------------
\* Chemistry: the rows of the residual
\* ---------------------------------------------------------------------------

\* the concentration of the species s to the power n
RECURSIVE ConcPower(_, _, _)
ConcPower(c, s, n) == IF n = 0 THEN One ELSE Mul(Chem_Conc(c, s), ConcPower(c, s, n - 1))

\* the product of the concentrations of the species s.. that a side of the
\* reaction iReaction lists, each as often as it is listed
RECURSIVE ListedProduct(_, _, _, _)
ListedProduct(c, iReaction, side, s) ==
  IF s = c.nSpecies THEN One
  ELSE Mul(ConcPower(c, s, SlotCount(c, iReaction, side, s)),
           ListedProduct(c, iReaction, side, s + 1))

\* a slot of the reaction map of the last call lists no species
ListsNoSpecies ==
  \E iReaction \in 0..(inp.nReactions - 1) : \E side \in 0..1 : \E ii \in 0..2 :
    inp.RxnMap[iReaction][side][ii] = inp.nSpecies

\* C29: after ComputeChemistry the vibrational-energy row of val_residual is
\* the sum over the species s of val_residual[s]*eve_i[s], the momentum rows
\* and the total-energy row are zero, and only the slots that list a species
\* enter the rate products and the species rows.
C29_ChemistryResidualRows ==
  kernel = "ComputeChemistry" =>
    /\ val_residual[inp.nSpecies + inp.nDim + 1] =
         VSum([s \in 0..(inp.nSpecies - 1) |-> Mul(val_residual[s], inp.eve_i[s])], inp.nSpecies)
    /\ \A k \in inp.nSpecies..(inp.nSpecies + inp.nDim) : val_residual[k] = Zero
    /\ \A iReaction \in 0..(inp.nReactions - 1) :
         /\ scratch.rxn[iReaction + 1].fwdRxn =
              Mul3(R(1000), inp.kf[iReaction], ListedProduct(inp, iReaction, 0, 0))
         /\ scratch.rxn[iReaction + 1].bkwRxn =
              Mul3(R(1000), inp.kb[iReaction], ListedProduct(inp, iReaction, 1, 0))
    /\ \A s \in 0..(inp.nSpecies - 1) :
         val_residual[s] =
           VSum([iReaction \in 0..(inp.nReactions - 1) |->
                   Mul(R(SlotCount(inp, iReaction, 1, s) - SlotCount(inp, iReaction, 0, s)),
                       Mul3(inp.Ms[s], RxnNetRate(iReaction), inp.Volume))], inp.nReactions)

\* two reactions with slots that list no species have filled the buffer that
\* held leftovers, and the vibrational-energy row is not zero
C29_Witness ==
  /\ kernel = "ComputeChemistry"
  /\ inp.nReactions = 2
  /\ ListsNoSpecies
  /\ prev.residual[inp.nSpecies] # Zero
  /\ val_residual[inp.nSpecies + inp.nDim + 1] # Zero
  /\ val_residual[0] # Zero

\* ---------------------------------------------------------------------------
\* Axisymmetric source: the cell on the axis
\* ---------------------------------------------------------------------------

OnAxis == kernel = "ComputeAxisymmetric" /\ proc = Running /\ inp.Coord_i[1] = Zero

\* C30: when Coord_i[1] = 0 ComputeAxisymmetric takes yinv = 0 instead of
\* dividing by the y coordinate; every row of val_residual is zero,
\* val_source is what it was before the call, and in implicit mode every
\* entry of val_Jacobian is zero.
C30_AxisGuard ==
  OnAxis =>
    /\ scratch.yinv = Zero
    /\ val_residual = ZeroVec(nVarOf(inp.nSpecies, inp.nDim))
    /\ val_source = prev.source
    /\ inst.implicit => val_Jacobian_i = ZeroMat(nVarOf(inp.nSpecies, inp.nDim))

\* on the axis the residual and the source are as stated, and the entries of
\* val_Jacobian outside the species block are zero
AxisGuardOutsideSpeciesBlock ==
  OnAxis =>
    /\ scratch.yinv = Zero
    /\ val_residual = ZeroVec(nVarOf(inp.nSpecies, inp.nDim))
    /\ val_source = prev.source
    /\ inst.implicit =>
         \A iVar \in 0..(nVarOf(inp.nSpecies, inp.nDim) - 1) :
           \A jVar \in 0..(nVarOf(inp.nSpecies, inp.nDim) - 1) :
             (iVar >= inp.nSpecies \/ jVar >= inp.nSpecies) => val_Jacobian_i[iVar][jVar] = Zero

\* on the axis the species block is zero whenever the entries of Ys hold numbers
AxisGuardWithNumbersInYs ==
  (OnAxis /\ inst.implicit /\ \A s \in 0..(inp.nSpecies - 1) : ~IsNaN(inp.uninit[s])) =>
    val_Jacobian_i = ZeroMat(nVarOf(inp.nSpecies, inp.nDim))

=============================================================================
